---------------------------- MODULE Spec2Model ----------------------------
(***************************************************************************)
(* Happy Eyeballs v3 engine (src/src/lib.rs, src/src/id.rs) as a state     *)
(* machine.  The engine is a passive object: the caller hands it inputs    *)
(* (process_input) and drains outputs (process_output), passing its own    *)
(* monotonic clock `now` on every call.  Debug assertions are compiled out *)
(* (release build): a debug_assert! is a no-op and the code after it runs. *)
(***************************************************************************)
EXTENDS Integers, Sequences, FiniteSets, TLC

\* Time is counted in milliseconds.
RESOLUTION_DELAY == 50
CONNECTION_ATTEMPT_DELAY == 250

-----------------------------------------------------------------------------
(* Bounds of the model *)

\* The caller's clock runs from 0 to MaxNow (milliseconds); to ShortNow when
\* it delivers answers with discovered target names.
MaxNow == 500
ShortNow == 50
\* The number of attempts the caller delivers a ConnectionResult for.
MaxConnectionResults == 4
\* The number of DNS results of another variant than the query's record
\* type that a caller with the "variant" liberty delivers.
MaxWrongVariants == 2

\* Amounts by which the caller's clock advances when it is not woken by a
\* Timer; a caller without ticks only ever wakes at a Timer's deadline.
LongTicks == {CONNECTION_ATTEMPT_DELAY}

-----------------------------------------------------------------------------
(* Value types *)

\* Option<T>: None is the empty sequence, Some(x) the one-element sequence.
None == <<>>
Some(x) == <<x>>

\* enum Protocol
Protocol == {"H3", "H2", "H1"}

\* enum ConnectionAttemptProtocols, in its derived Ord order.
ConnectionAttemptProtocols == <<"H3", "H2OrH1", "H2", "H1">>

\* enum DnsRecordType
DnsRecordType == {"Https", "Aaaa", "A"}

\* Position of a ConnectionAttemptProtocols value in the derived Ord.
ProtocolOrd(p) ==
    CHOOSE i \in 1..Len(ConnectionAttemptProtocols) : ConnectionAttemptProtocols[i] = p

\* Concatenation of a sequence of sequences (Iterator::flat_map / flatten).
RECURSIVE Flatten(_)
Flatten(ss) ==
    IF ss = <<>> THEN <<>> ELSE Head(ss) \o Flatten(Tail(ss))

\* Iterator::map over a sequence.
Map(f(_), s) == [i \in 1..Len(s) |-> f(s[i])]

\* The elements of a sequence as a set.
Range(s) == {s[i] : i \in 1..Len(s)}

\* The target names, addresses and ECH bytes the environment uses.
HOSTNAME == "example.com"
SVC1 == "svc1.example.com."
V6_ADDR == "2001:db8::1"
V6_ADDR_2 == "2001:db8::2"
V6_ADDR_3 == "2001:db8::3"
V4_ADDR == "192.0.2.1"
ECH_CONFIG == <<1, 2, 3, 4, 5>>

\* IpAddr::V6(a) / IpAddr::V4(a)
IpV6(a) == [v6 |-> TRUE, addr |-> a]
IpV4(a) == [v6 |-> FALSE, addr |-> a]
\* SocketAddr::new(ip, port)
SocketAddr(ip, p) == [ip |-> ip, port |-> p]

\* struct ServiceInfo
ServiceInfo(prio, name, alpn, ech, v4, v6) ==
    [priority |-> prio, target_name |-> name, alpn_protocols |-> alpn,
     ech_config |-> ech, ipv4_hints |-> v4, ipv6_hints |-> v6]

\* enum DnsResult: variant `type` holding Ok(val) or Err(()).
DnsOk(t, v) == [type |-> t, ok |-> TRUE, val |-> v]
DnsErr(t) == [type |-> t, ok |-> FALSE, val |-> <<>>]

\* enum Output, and None for Option<Output>::None.
SendDnsQuery(id, hostname, record_type) ==
    [type |-> "SendDnsQuery", id |-> id, hostname |-> hostname, record_type |-> record_type]
Timer(duration) == [type |-> "Timer", duration |-> duration]
AttemptConnection(id, endpoint) ==
    [type |-> "AttemptConnection", id |-> id, endpoint |-> endpoint]
CancelConnection(address) == [type |-> "CancelConnection", address |-> address]
Succeeded == [type |-> "Succeeded"]
Failed == [type |-> "Failed"]
NoOutput == [type |-> "None"]
\* process_output has not been called yet.
NotCalled == [type |-> "NotCalled"]


\* struct Endpoint
Endpoint(address, protocol, ech_config) ==
    [address |-> address, protocol |-> protocol, ech_config |-> ech_config]

\* enum DnsQuery: the InProgress variant keeps the record type asked for, the
\* Completed variant keeps only the response.
InProgressQuery(id, target_name, rt) ==
    [state |-> "InProgress", id |-> id, target_name |-> target_name, record_type |-> rt]
CompletedQuery(id, target_name, completed, response) ==
    [state |-> "Completed", id |-> id, target_name |-> target_name,
     completed |-> completed, response |-> response]

\* struct ConnectionAttempt
ConnectionAttempt(id, endpoint, started, state) ==
    [id |-> id, endpoint |-> endpoint, started |-> started, state |-> state]

\* Instant::duration_since: saturates at zero.
duration_since(later, earlier) == IF later >= earlier THEN later - earlier ELSE 0

Min(S) == CHOOSE x \in S : \A y \in S : x <= y
Max(S) == CHOOSE x \in S : \A y \in S : x >= y

\* The iteration of a HashSet: the set of the orders it may come in, every
\* listing of the elements without repetition.  The order is the same for
\* every iteration of one HashSet and may differ from one HashSet to the next.
SetToSeq(S) ==
    {order \in [1..Cardinality(S) -> S] : \A x \in S : \E i \in 1..Cardinality(S) : order[i] = x}

\* One sequence for every way of taking, place by place, a member of the set
\* at that place of a sequence of sets.
RECURSIVE Choices(_)
Choices(sets) ==
    IF sets = <<>> THEN {<<>>}
    ELSE {<<h>> \o t : h \in Head(sets), t \in Choices(Tail(sets))}

\* The elements of the Vec, whichever of the possible Vecs it is.
Elements(vecs) == UNION {Range(v) : v \in vecs}

-----------------------------------------------------------------------------
(* State *)

VARIABLES
    network_config,       \* HappyEyeballs::network_config (immutable)
    host,                 \* HappyEyeballs::host: [kind, value]
    port,                 \* HappyEyeballs::port
    next,                 \* IdGenerator::next
    dns_queries,          \* HappyEyeballs::dns_queries
    connection_attempts,  \* HappyEyeballs::connection_attempts
    now,                  \* the caller's clock, passed as `now` to every call
    output,               \* what the last process_output call returned
    caller,               \* the caller: its liberties, its DNS answers, its clock
    wake,                 \* the deadline of the last Timer returned, None when passed
    answered,             \* the Ids for which the caller has delivered a result
    terminals,            \* the terminal outputs (Succeeded, Failed) returned so far
    emitted,              \* the Id-carrying outputs returned so far, in order
    result_since_attempt, \* a ConnectionResult was delivered since the last AttemptConnection
    quiet,                \* the Ids of the attempts emitted with no ConnectionResult
                          \* delivered since the AttemptConnection before them
    watch                 \* the outputs drained since the last ConnectionResult{Ok}

engine == <<network_config, host, port, next, dns_queries, connection_attempts>>
history == <<answered, terminals, emitted, result_since_attempt, quiet, watch>>
vars == <<engine, now, output, caller, wake, history>>

-----------------------------------------------------------------------------
(* DnsResult, ServiceInfo, ConnectionAttemptProtocols, DnsQuery *)

\* DnsQuery::record_type
record_type(q) ==
    IF q.state = "InProgress" THEN q.record_type ELSE q.response.type

\* DnsQuery::get_response
get_response(q) == IF q.state = "InProgress" THEN None ELSE Some(q.response)

\* DnsResult::positive
positive(r) == r.ok

\* from_protocols offering HTTP/1.1 with every HTTP/2 attempt.
from_protocols_h2_or_h1(protocols) ==
    (IF "H3" \in protocols THEN {"H3"} ELSE {})
    \cup (IF "H2" \in protocols THEN {"H2OrH1"}
          ELSE IF "H1" \in protocols THEN {"H1"}
          ELSE {})

\* ConnectionAttemptProtocols::from_protocols
from_protocols(protocols) ==
    (IF "H3" \in protocols THEN {"H3"} ELSE {})
    \cup (IF "H2" \in protocols /\ "H1" \in protocols THEN {"H2OrH1"}
          ELSE IF "H2" \in protocols THEN {"H2"}
          ELSE IF "H1" \in protocols THEN {"H1"}
          ELSE {})

\* ServiceInfo::flatten_into_endpoints: the Vecs the call may return.  Every
\* kept address gets a HashSet of its own from from_protocols, iterated in an
\* order of its own.
ServiceInfo_flatten_into_endpoints(info, p, got_a, got_aaaa) ==
    LET ips == Map(IpV6, info.ipv6_hints) \o Map(IpV4, info.ipv4_hints)
        kept == SelectSeq(ips, LAMBDA ip : IF ip.v6 THEN ~got_aaaa ELSE ~got_a)
        of_ip(ip) ==
            {Map(LAMBDA pr : Endpoint(SocketAddr(ip, p), pr, info.ech_config), order) :
                order \in SetToSeq(from_protocols(info.alpn_protocols))}
    IN  {Flatten(c) : c \in Choices(Map(of_ip, kept))}

\* DnsResult::flatten_into_endpoints: the Vecs the call may return.  The one
\* HashSet `protocols` is iterated for every address of an A or AAAA answer,
\* in the same order each time.
DnsResult_flatten_into_endpoints(r, p, got_a, got_aaaa, protocols, ech) ==
    IF ~r.ok THEN {<<>>}
    ELSE IF r.type = "Https"
    THEN {Flatten(c) :
             c \in Choices(Map(LAMBDA info :
                                   ServiceInfo_flatten_into_endpoints(info, p, got_a, got_aaaa),
                               r.val))}
    ELSE LET ips == IF r.type = "Aaaa" THEN Map(IpV6, r.val) ELSE Map(IpV4, r.val)
             of_ip(order) ==
                 Flatten(Map(LAMBDA ip :
                                 Map(LAMBDA pr : Endpoint(SocketAddr(ip, p), pr, ech), order),
                             ips))
         IN  {of_ip(order) : order \in SetToSeq(protocols)}

\* prefer_v6 holding for a dual-stack network only.
prefer_v6_dual_stack_only == network_config.ip = "DualStackPreferV6"

\* NetworkConfig::prefer_v6
prefer_v6 == network_config.ip \in {"DualStackPreferV6", "Ipv6Only"}

\* NetworkConfig::preferred_dns_record_type
preferred_dns_record_type ==
    IF network_config.ip \in {"DualStackPreferV6", "Ipv6Only"} THEN "Aaaa" ELSE "A"

\* within_delay measuring against the Resolution Delay.
within_delay_resolution(a, t) == duration_since(t, a.started) < RESOLUTION_DELAY

\* within_delay counting an attempt exactly CONNECTION_ATTEMPT_DELAY old as
\* within the delay.
within_delay_inclusive(a, t) == duration_since(t, a.started) <= CONNECTION_ATTEMPT_DELAY

\* ConnectionAttempt::within_delay
within_delay(a, t) == duration_since(t, a.started) < CONNECTION_ATTEMPT_DELAY

\* sort_with_config without the reversal for an IPv6 preference.
sort_with_config_unreversed(a, b) ==
    IF a.protocol # b.protocol
    THEN IF ProtocolOrd(a.protocol) < ProtocolOrd(b.protocol) THEN "Less" ELSE "Greater"
    ELSE IF a.address.ip.v6 = b.address.ip.v6 THEN "Equal"
         ELSE IF b.address.ip.v6 THEN "Less" ELSE "Greater"

\* Endpoint::sort_with_config: "Less", "Equal" or "Greater".
sort_with_config(a, b) ==
    IF a.protocol # b.protocol
    THEN IF ProtocolOrd(a.protocol) < ProtocolOrd(b.protocol) THEN "Less" ELSE "Greater"
    ELSE LET order == IF a.address.ip.v6 = b.address.ip.v6 THEN "Equal"
                      ELSE IF b.address.ip.v6 THEN "Less" ELSE "Greater"
             reversed == IF order = "Less" THEN "Greater"
                         ELSE IF order = "Greater" THEN "Less" ELSE "Equal"
         IN  IF prefer_v6 THEN reversed ELSE order

\* An insertion that puts the element before the elements it is equal to,
\* which makes the sort reverse the order of equal elements.
RECURSIVE InsertSorted_before_equal(_, _)
InsertSorted_before_equal(e, s) ==
    IF s = <<>> THEN <<e>>
    ELSE IF sort_with_config(e, Head(s)) # "Greater" THEN <<e>> \o s
    ELSE <<Head(s)>> \o InsertSorted_before_equal(e, Tail(s))

\* slice::sort_by with sort_with_config: a stable sort.
RECURSIVE InsertSorted(_, _)
InsertSorted(e, s) ==
    IF s = <<>> THEN <<e>>
    ELSE IF sort_with_config(e, Head(s)) = "Less" THEN <<e>> \o s
    ELSE <<Head(s)>> \o InsertSorted(e, Tail(s))

RECURSIVE sort_by(_)
sort_by(s) ==
    IF s = <<>> THEN <<>>
    ELSE CHOOSE out \in {InsertSorted(last, sorted) :
                             last \in {s[Len(s)]},
                             sorted \in {sort_by(init) :
                                            init \in {SubSeq(s, 1, Len(s) - 1)}}} : TRUE

-----------------------------------------------------------------------------
(* HappyEyeballs: queries on the ledgers *)

\* The host as a TargetName (Host::Domain(d) => d.as_str().into()).
host_is_ip == host.kind \in {"Ipv4", "Ipv6"}

\* HappyEyeballs::has_successful_connection
has_successful_connection ==
    \E i \in 1..Len(connection_attempts) : connection_attempts[i].state = "Succeeded"

\* HappyEyeballs::has_pending_queries
has_pending_queries ==
    \E i \in 1..Len(dns_queries) : dns_queries[i].state = "InProgress"

\* HappyEyeballs::has_pending_connections
has_pending_connections ==
    \E i \in 1..Len(connection_attempts) : connection_attempts[i].state = "InProgress"

\* HappyEyeballs::got_dns_aaaa_response (reached for a domain host only)
got_dns_aaaa_response ==
    \E i \in 1..Len(dns_queries) :
        LET q == dns_queries[i]
        IN  /\ q.target_name = host.value
            /\ q.state = "Completed"
            /\ q.response.type = "Aaaa" /\ q.response.ok /\ q.response.val # <<>>

\* HappyEyeballs::got_dns_a_response (reached for a domain host only)
got_dns_a_response ==
    \E i \in 1..Len(dns_queries) :
        LET q == dns_queries[i]
        IN  /\ q.target_name = host.value
            /\ q.state = "Completed"
            /\ q.response.type = "A" /\ q.response.ok /\ q.response.val # <<>>

\* The Completed entries of the DNS ledger, in ledger order.
completed_queries == SelectSeq(dns_queries, LAMBDA q : q.state = "Completed")

\* connection_attempt_protocols without the alt-svc protocols.
connection_attempt_protocols_no_alt_svc ==
    LET https == SelectSeq(completed_queries,
                           LAMBDA q : q.response.type = "Https" /\ q.response.ok)
        alpn == UNION {UNION {info.alpn_protocols : info \in Range(q.response.val)} :
                       q \in Range(https)}
        seeded == IF alpn = {} THEN {"H2", "H1"} ELSE alpn
        masked == seeded
                  \ ((IF network_config.http_versions.h3 THEN {} ELSE {"H3"})
                     \cup (IF network_config.http_versions.h2 THEN {} ELSE {"H2"})
                     \cup (IF network_config.http_versions.h1 THEN {} ELSE {"H1"}))
    IN  from_protocols(masked)

\* HappyEyeballs::connection_attempt_protocols
connection_attempt_protocols ==
    LET https == SelectSeq(completed_queries,
                           LAMBDA q : q.response.type = "Https" /\ q.response.ok)
        alpn == UNION {UNION {info.alpn_protocols : info \in Range(q.response.val)} :
                       q \in Range(https)}
        seeded == IF alpn = {} THEN {"H2", "H1"} ELSE alpn
        with_alt_svc == seeded \cup {a.protocol : a \in Range(network_config.alt_svc)}
        masked == with_alt_svc
                  \ ((IF network_config.http_versions.h3 THEN {} ELSE {"H3"})
                     \cup (IF network_config.http_versions.h2 THEN {} ELSE {"H2"})
                     \cup (IF network_config.http_versions.h1 THEN {} ELSE {"H1"}))
    IN  from_protocols(masked)

\* The first ECH config of a service-info list (Iterator::find_map).
first_ech(infos) ==
    LET with_ech == SelectSeq(infos, LAMBDA info : info.ech_config # None)
    IN  IF with_ech = <<>> THEN None ELSE Head(with_ech).ech_config

\* ech_config finding no ECH config.
ech_config_unset == None

\* HappyEyeballs::ech_config
ech_config ==
    IF host_is_ip THEN None
    ELSE LET found == SelectSeq(completed_queries,
                        LAMBDA q : /\ q.response.type = "Https" /\ q.response.ok
                                   /\ q.target_name = host.value
                                   /\ first_ech(q.response.val) # None)
         IN  IF found = <<>> THEN None ELSE first_ech(Head(found).response.val)

\* move_on_without_timeout waiting until no query is left InProgress.
move_on_without_timeout_all_answered ==
    /\ ~host_is_ip
    /\ \E q \in Range(completed_queries) :
          \/ q.response.type \in {"Aaaa", "A"} /\ q.response.ok /\ q.response.val # <<>>
          \/ /\ q.response.type = "Https" /\ q.response.ok
             /\ \E info \in Range(q.response.val) :
                   info.ipv4_hints # <<>> \/ info.ipv6_hints # <<>>
    /\ \A q \in Range(dns_queries) : q.state = "Completed"

\* HappyEyeballs::move_on_without_timeout
move_on_without_timeout ==
    /\ ~host_is_ip
    /\ \E q \in Range(completed_queries) :
          \/ q.response.type \in {"Aaaa", "A"} /\ q.response.ok /\ q.response.val # <<>>
          \/ /\ q.response.type = "Https" /\ q.response.ok
             /\ \E info \in Range(q.response.val) :
                   info.ipv4_hints # <<>> \/ info.ipv6_hints # <<>>
    /\ \E q \in Range(completed_queries) : record_type(q) = preferred_dns_record_type
    /\ \E q \in Range(completed_queries) :
          q.target_name = host.value /\ record_type(q) = "Https"

\* move_on_with_timeout measuring the Resolution Delay from the latest
\* response instead of the earliest.
move_on_with_timeout_since_last(t) ==
    /\ \E q \in Range(completed_queries) :
          positive(q.response) /\ q.response.type \in {"Aaaa", "A"}
    /\ \A q \in Range(completed_queries) :
          duration_since(t, q.completed) >= RESOLUTION_DELAY

\* HappyEyeballs::move_on_with_timeout
move_on_with_timeout(t) ==
    /\ \E q \in Range(completed_queries) :
          positive(q.response) /\ q.response.type \in {"Aaaa", "A"}
    /\ \E q \in Range(completed_queries) :
          duration_since(t, q.completed) >= RESOLUTION_DELAY

\* The candidate endpoints of a domain host before the filter on attempted
\* ones (the flat_map of next_endpoint_to_attempt): the Vecs it may yield,
\* connection_attempt_protocols() being a new HashSet for every response.
flattened_endpoints ==
    {Flatten(c) :
        c \in Choices(Map(LAMBDA q : DnsResult_flatten_into_endpoints(
                                         q.response, port, got_dns_a_response,
                                         got_dns_aaaa_response,
                                         connection_attempt_protocols, ech_config),
                          completed_queries))}

\* The endpoint has been attempted: some ledger entry holds an equal endpoint.
attempted(endpoint) ==
    \E i \in 1..Len(connection_attempts) : connection_attempts[i].endpoint = endpoint

\* HappyEyeballs::next_endpoint_to_attempt: the set of endpoints the call may
\* return, empty when it returns None.  For an IP host the protocol is the
\* first element of a HashSet's iteration, which may be any element.
next_endpoint_to_attempt ==
    IF host_is_ip
    THEN {Endpoint(SocketAddr(IF host.kind = "Ipv6" THEN IpV6(host.value) ELSE IpV4(host.value),
                              port), p, None) :
          p \in connection_attempt_protocols}
    ELSE {Head(endpoints) :
             endpoints \in {sort_by(SelectSeq(flattened, LAMBDA e : ~attempted(e))) :
                               flattened \in flattened_endpoints} \ {<<>>}}

-----------------------------------------------------------------------------
(* HappyEyeballs: the steps of process_output.  Each step gives the set of   *)
(* its possible effects, a record of the returned output and the new ledgers *)
(* and Id counter; the empty set when the step returns None.                 *)

Effect(out, queries, attempts, next_id) ==
    [output |-> out, dns_queries |-> queries, connection_attempts |-> attempts,
     next |-> next_id]

\* next_id leaving the counter where it is.
next_id_after_same(n) == n

\* IdGenerator::next_id: the counter after the call (the Id returned is the
\* counter before it).  The u64 counter does not wrap within the bounds.
next_id_after(n) == n + 1

\* cancel_remaining_attempts cancelling the last in-progress attempt first.
cancel_remaining_attempts_last_first ==
    IF ~has_successful_connection THEN {}
    ELSE IF has_pending_connections
    THEN LET i == Max({j \in 1..Len(connection_attempts) :
                          connection_attempts[j].state = "InProgress"})
         IN  {Effect(CancelConnection(connection_attempts[i].endpoint.address),
                     dns_queries,
                     [connection_attempts EXCEPT ![i].state = "Failed"],
                     next)}
    ELSE {Effect(Succeeded, dns_queries, connection_attempts, next)}

\* HappyEyeballs::cancel_remaining_attempts
cancel_remaining_attempts ==
    IF ~has_successful_connection THEN {}
    ELSE IF has_pending_connections
    THEN LET i == Min({j \in 1..Len(connection_attempts) :
                          connection_attempts[j].state = "InProgress"})
         IN  {Effect(CancelConnection(connection_attempts[i].endpoint.address),
                     dns_queries,
                     [connection_attempts EXCEPT ![i].state = "Failed"],
                     next)}
    ELSE {Effect(Succeeded, dns_queries, connection_attempts, next)}

\* The record types send_dns_request still has to ask for, in its order.
missing_record_types ==
    SelectSeq(<<"Https", "Aaaa", "A">>,
              LAMBDA rt : ~\E i \in 1..Len(dns_queries) : record_type(dns_queries[i]) = rt)

\* send_dns_request without the early return for an IP host.
send_dns_request_any_host ==
    IF missing_record_types = <<>> THEN {}
    ELSE LET rt == Head(missing_record_types)
         IN  {Effect(SendDnsQuery(next, host.value, rt),
                     Append(dns_queries, InProgressQuery(next, host.value, rt)),
                     connection_attempts,
                     next_id_after(next))}

\* HappyEyeballs::send_dns_request
send_dns_request ==
    IF host_is_ip \/ missing_record_types = <<>> THEN {}
    ELSE LET rt == Head(missing_record_types)
         IN  {Effect(SendDnsQuery(next, host.value, rt),
                     Append(dns_queries, InProgressQuery(next, host.value, rt)),
                     connection_attempts,
                     next_id_after(next))}

\* The target names of the completed positive HTTPS responses, in ledger order.
discovered_target_names ==
    Flatten(Map(LAMBDA q : IF q.response.type = "Https" /\ q.response.ok
                           THEN Map(LAMBDA info : info.target_name, q.response.val)
                           ELSE <<>>,
                completed_queries))

\* missing_target_queries asking for A before AAAA.
missing_target_queries_a_first ==
    SelectSeq(Flatten(Map(LAMBDA name : <<<<name, "A">>, <<name, "Aaaa">>>>,
                          discovered_target_names)),
              LAMBDA nr : ~\E i \in 1..Len(dns_queries) :
                              /\ dns_queries[i].target_name = nr[1]
                              /\ record_type(dns_queries[i]) = nr[2])

\* The (target name, record type) pairs send_dns_request_for_target_name
\* still has to ask for, in its order.
missing_target_queries ==
    SelectSeq(Flatten(Map(LAMBDA name : <<<<name, "Aaaa">>, <<name, "A">>>>,
                          discovered_target_names)),
              LAMBDA nr : ~\E i \in 1..Len(dns_queries) :
                              /\ dns_queries[i].target_name = nr[1]
                              /\ record_type(dns_queries[i]) = nr[2])

\* send_dns_request_for_target_name forgetting to enter the query it sends
\* into the DNS ledger.
send_dns_request_for_target_name_unrecorded ==
    IF missing_target_queries = <<>> THEN {}
    ELSE LET nr == Head(missing_target_queries)
         IN  {Effect(SendDnsQuery(next, nr[1], nr[2]),
                     dns_queries,
                     connection_attempts,
                     next_id_after(next))}

\* HappyEyeballs::send_dns_request_for_target_name
send_dns_request_for_target_name ==
    IF missing_target_queries = <<>> THEN {}
    ELSE LET nr == Head(missing_target_queries)
         IN  {Effect(SendDnsQuery(next, nr[1], nr[2]),
                     Append(dns_queries, InProgressQuery(next, nr[1], nr[2])),
                     connection_attempts,
                     next_id_after(next))}

\* connection_attempt looking only at the oldest in-progress attempt.
connection_attempt_oldest_only(t) ==
    LET in_progress == SelectSeq(connection_attempts, LAMBDA a : a.state = "InProgress")
    IN  IF ~(move_on_without_timeout \/ move_on_with_timeout(t) \/ host_is_ip) THEN {}
        ELSE IF in_progress # <<>> /\ within_delay(Head(in_progress), t) THEN {}
        ELSE {Effect(AttemptConnection(next, endpoint),
                     dns_queries,
                     Append(connection_attempts,
                            ConnectionAttempt(next, endpoint, t, "InProgress")),
                     next_id_after(next)) :
              endpoint \in next_endpoint_to_attempt}

\* HappyEyeballs::connection_attempt
connection_attempt(t) ==
    IF ~(move_on_without_timeout \/ move_on_with_timeout(t) \/ host_is_ip) THEN {}
    ELSE IF \E i \in 1..Len(connection_attempts) :
               /\ connection_attempts[i].state = "InProgress"
               /\ within_delay(connection_attempts[i], t)
    THEN {}
    ELSE {Effect(AttemptConnection(next, endpoint),
                 dns_queries,
                 Append(connection_attempts,
                        ConnectionAttempt(next, endpoint, t, "InProgress")),
                 next_id_after(next)) :
          endpoint \in next_endpoint_to_attempt}

\* delay giving the resolution timer precedence over the connection-attempt
\* timer.
delay_resolution_first(t) ==
    LET in_progress == {connection_attempts[i].started :
                          i \in {j \in 1..Len(connection_attempts) :
                                    connection_attempts[j].state = "InProgress"}}
        completed == {q.completed : q \in Range(completed_queries)}
    IN  IF has_successful_connection THEN None
        ELSE IF /\ has_pending_queries /\ completed # {}
                /\ duration_since(t, Min(completed)) < RESOLUTION_DELAY
        THEN Some(Timer(RESOLUTION_DELAY - duration_since(t, Min(completed))))
        ELSE IF in_progress # {}
                /\ duration_since(t, Max(in_progress)) < CONNECTION_ATTEMPT_DELAY
        THEN Some(Timer(CONNECTION_ATTEMPT_DELAY - duration_since(t, Max(in_progress))))
        ELSE None

\* delay reporting the Connection Attempt Delay only, never the Resolution
\* Delay.
delay_attempts_only(t) ==
    LET in_progress == {connection_attempts[i].started :
                          i \in {j \in 1..Len(connection_attempts) :
                                    connection_attempts[j].state = "InProgress"}}
    IN  IF has_successful_connection THEN None
        ELSE IF in_progress # {}
                /\ duration_since(t, Max(in_progress)) < CONNECTION_ATTEMPT_DELAY
        THEN Some(Timer(CONNECTION_ATTEMPT_DELAY - duration_since(t, Max(in_progress))))
        ELSE None

\* delay still returning a Timer when the delay has just elapsed.
delay_inclusive(t) ==
    LET in_progress == {connection_attempts[i].started :
                          i \in {j \in 1..Len(connection_attempts) :
                                    connection_attempts[j].state = "InProgress"}}
        completed == {q.completed : q \in Range(completed_queries)}
    IN  IF has_successful_connection THEN None
        ELSE IF in_progress # {}
                /\ duration_since(t, Max(in_progress)) <= CONNECTION_ATTEMPT_DELAY
        THEN Some(Timer(CONNECTION_ATTEMPT_DELAY - duration_since(t, Max(in_progress))))
        ELSE IF ~has_pending_queries THEN None
        ELSE IF completed # {} /\ duration_since(t, Min(completed)) <= RESOLUTION_DELAY
        THEN Some(Timer(RESOLUTION_DELAY - duration_since(t, Min(completed))))
        ELSE None

\* HappyEyeballs::delay: Some(Output::Timer) or None.
delay(t) ==
    LET in_progress == {connection_attempts[i].started :
                          i \in {j \in 1..Len(connection_attempts) :
                                    connection_attempts[j].state = "InProgress"}}
        completed == {q.completed : q \in Range(completed_queries)}
    IN  IF has_successful_connection THEN None
        ELSE IF in_progress # {}
                /\ duration_since(t, Max(in_progress)) < CONNECTION_ATTEMPT_DELAY
        THEN Some(Timer(CONNECTION_ATTEMPT_DELAY - duration_since(t, Max(in_progress))))
        ELSE IF ~has_pending_queries THEN None
        ELSE IF completed # {} /\ duration_since(t, Min(completed)) < RESOLUTION_DELAY
        THEN Some(Timer(RESOLUTION_DELAY - duration_since(t, Min(completed))))
        ELSE None

\* The failure check minting an Id when it reports Failed.
exhausted_or_none_minting ==
    IF ~has_successful_connection /\ ~has_pending_queries /\ ~has_pending_connections
    THEN {Effect(Failed, dns_queries, connection_attempts, next_id_after(next))}
    ELSE {Effect(NoOutput, dns_queries, connection_attempts, next)}

\* The failure check of process_output_inner.
exhausted_or_none ==
    IF ~has_successful_connection /\ ~has_pending_queries /\ ~has_pending_connections
    THEN {Effect(Failed, dns_queries, connection_attempts, next)}
    ELSE {Effect(NoOutput, dns_queries, connection_attempts, next)}

\* process_output_inner trying a connection attempt before the cancellations.
process_output_inner_attempt_first(t) ==
    IF connection_attempt(t) # {} /\ send_dns_request = {} THEN connection_attempt(t)
    ELSE IF cancel_remaining_attempts # {} THEN cancel_remaining_attempts
    ELSE IF send_dns_request # {} THEN send_dns_request
    ELSE IF send_dns_request_for_target_name # {} THEN send_dns_request_for_target_name
    ELSE IF delay(t) # None
    THEN {Effect(delay(t)[1], dns_queries, connection_attempts, next)}
    ELSE exhausted_or_none

\* process_output_inner skipping the cancellations once a connection succeeded
\* and the DNS queries are out.
process_output_inner_no_terminal(t) ==
    IF cancel_remaining_attempts # {} /\ has_pending_connections
    THEN cancel_remaining_attempts
    ELSE IF send_dns_request # {} THEN send_dns_request
    ELSE IF connection_attempt(t) # {} THEN connection_attempt(t)
    ELSE IF send_dns_request_for_target_name # {} THEN send_dns_request_for_target_name
    ELSE IF delay(t) # None
    THEN {Effect(delay(t)[1], dns_queries, connection_attempts, next)}
    ELSE exhausted_or_none

\* HappyEyeballs::process_output_inner
process_output_inner(t) ==
    IF cancel_remaining_attempts # {} THEN cancel_remaining_attempts
    ELSE IF send_dns_request # {} THEN send_dns_request
    ELSE IF connection_attempt(t) # {} THEN connection_attempt(t)
    ELSE IF send_dns_request_for_target_name # {} THEN send_dns_request_for_target_name
    ELSE IF delay(t) # None
    THEN {Effect(delay(t)[1], dns_queries, connection_attempts, next)}
    ELSE exhausted_or_none

\* on_dns_response replacing the entry whatever its state.
on_dns_response_overwriting(id, response, t) ==
    LET found == {i \in 1..Len(dns_queries) : dns_queries[i].id = id}
    IN  IF found = {} THEN dns_queries
        ELSE [dns_queries EXCEPT
                 ![Min(found)] = CompletedQuery(id, dns_queries[Min(found)].target_name,
                                                t, response)]

\* HappyEyeballs::on_dns_response: the DNS ledger after the call.
on_dns_response(id, response, t) ==
    LET found == {i \in 1..Len(dns_queries) : dns_queries[i].id = id}
    IN  IF found = {} THEN dns_queries
        ELSE LET i == Min(found)
             IN  IF dns_queries[i].state = "Completed" THEN dns_queries
                 ELSE [dns_queries EXCEPT
                          ![i] = CompletedQuery(id, dns_queries[i].target_name, t, response)]

\* on_connection_result marking every other InProgress attempt Failed when
\* the result is Ok.
on_connection_result_cancelling(id, ok) ==
    LET found == {i \in 1..Len(connection_attempts) : connection_attempts[i].id = id}
    IN  IF found = {} THEN connection_attempts
        ELSE [i \in 1..Len(connection_attempts) |->
                 IF i = Min(found)
                 THEN [connection_attempts[i] EXCEPT
                          !.state = IF ok THEN "Succeeded" ELSE "Failed"]
                 ELSE IF ok /\ connection_attempts[i].state = "InProgress"
                 THEN [connection_attempts[i] EXCEPT !.state = "Failed"]
                 ELSE connection_attempts[i]]

\* HappyEyeballs::on_connection_result: the attempt ledger after the call.
on_connection_result(id, ok) ==
    LET found == {i \in 1..Len(connection_attempts) : connection_attempts[i].id = id}
    IN  IF found = {} THEN connection_attempts
        ELSE [connection_attempts EXCEPT
                 ![Min(found)].state = IF ok THEN "Succeeded" ELSE "Failed"]

-----------------------------------------------------------------------------
(* The environment: configurations, hosts and the results a caller delivers *)

PORT == 443

\* NetworkConfig::default()
DefaultConfig ==
    [http_versions |-> [h1 |-> TRUE, h2 |-> TRUE, h3 |-> TRUE],
     ip |-> "DualStackPreferV6",
     alt_svc |-> <<>>]

\* DualStackPreferV4 with every HTTP version enabled.
PreferV4Config == [DefaultConfig EXCEPT !.ip = "DualStackPreferV4"]

\* The configuration of alt_svc_used_immediately: one alt-svc entry for H3.
AltSvcH3Config ==
    [DefaultConfig EXCEPT !.alt_svc = <<[host |-> None, port |-> None, protocol |-> "H3"]>>]

\* HTTP/3 disabled, and HTTP/2 disabled.
NoH3Config == [DefaultConfig EXCEPT !.http_versions.h3 = FALSE]
NoH2Config == [DefaultConfig EXCEPT !.http_versions.h2 = FALSE]


\* Every HTTP version disabled and no alt-svc: no protocol is left to attempt.
NoVersionConfig ==
    [DefaultConfig EXCEPT !.http_versions = [h1 |-> FALSE, h2 |-> FALSE, h3 |-> FALSE]]

Configs ==
    {DefaultConfig, PreferV4Config, AltSvcH3Config, NoH3Config, NoH2Config,
     NoVersionConfig}

\* The host argument of the constructor.  The two parsers the constructor
\* calls (url::Host::parse and str::parse::<IpAddr>) are library code; a text
\* is given here by its form and by the address or name it denotes:
\*   "Bracketed"   an IPv6 address between brackets, "[2001:0DB8::1]";
\*   "BareV6"      an IPv6 address without brackets, "2001:db8::1", "::1";
\*   "DottedQuad"  four decimal numbers with dots, "192.0.2.1", "127.0.0.1";
\*   "Name"        a domain name, "example.com";
\*   "Other"       a text neither parser accepts, "[192.0.2.1]", "".
HostText(form, denotes) == [form |-> form, denotes |-> denotes]

BracketedV6Text == HostText("Bracketed", V6_ADDR)
BareV6Text == HostText("BareV6", V6_ADDR)
V4Text == HostText("DottedQuad", V4_ADDR)
DomainText == HostText("Name", HOSTNAME)
RefusedText == HostText("Other", "[192.0.2.1]")

\* url::Host::parse, as new_with_network_config calls it: it accepts a
\* bracketed IPv6 address, a dotted quad and a domain name, and refuses an
\* IPv6 address without brackets (the colon is no domain character).
Host_parse(text) ==
    CASE text.form = "Bracketed" -> Some([kind |-> "Ipv6", value |-> text.denotes])
      [] text.form = "DottedQuad" -> Some([kind |-> "Ipv4", value |-> text.denotes])
      [] text.form = "Name" -> Some([kind |-> "Domain", value |-> text.denotes])
      [] text.form \in {"BareV6", "Other"} -> None

\* str::parse::<IpAddr>: it accepts an IPv4 or IPv6 address without brackets.
IpAddr_parse(text) ==
    CASE text.form = "BareV6" -> Some([kind |-> "Ipv6", value |-> text.denotes])
      [] text.form = "DottedQuad" -> Some([kind |-> "Ipv4", value |-> text.denotes])
      [] text.form \in {"Bracketed", "Name", "Other"} -> None

\* The host of new_with_network_config: Host::parse first, the bare IP literal
\* when that fails, None for ConstructorError (InvalidHost).
new_host(text) ==
    IF Host_parse(text) # None THEN Host_parse(text) ELSE IpAddr_parse(text)

DomainHost == new_host(DomainText)[1]
Ipv6Host == new_host(BracketedV6Text)[1]
Ipv6BareHost == new_host(BareV6Text)[1]
Ipv4Host == new_host(V4Text)[1]

\* DNS answers of the tests: negative ones, and positive ones with one
\* address or one service-info record with ALPN h3, h2 for the primary target.
HttpsNegative == DnsErr("Https")
HttpsPositive ==
    DnsOk("Https", <<ServiceInfo(1, HOSTNAME, {"H3", "H2"}, None, <<>>, <<>>)>>)
AaaaNegative == DnsErr("Aaaa")
AaaaPositive == DnsOk("Aaaa", <<V6_ADDR>>)
ANegative == DnsErr("A")
APositive == DnsOk("A", <<V4_ADDR>>)

\* An HTTPS answer that names another target, with an IPv6 hint.
HttpsSvc1 ==
    DnsOk("Https", <<ServiceInfo(1, SVC1, {"H3", "H2"}, None, <<>>, <<V6_ADDR_2>>)>>)

\* An HTTPS answer that names the primary target and twice the same other
\* target, with an ECH config and an IPv4 hint.
HttpsSelfAndSvc1Twice ==
    DnsOk("Https", <<ServiceInfo(1, HOSTNAME, {"H2"}, Some(ECH_CONFIG), <<>>, <<>>),
                     ServiceInfo(2, SVC1, {}, None, <<V4_ADDR>>, <<>>),
                     ServiceInfo(3, SVC1, {"H3"}, None, <<>>, <<>>)>>)

\* An HTTPS answer for the primary target with an IPv6 hint
\* (in_dns_https_positive_v6_hints).
HttpsHints ==
    DnsOk("Https", <<ServiceInfo(1, HOSTNAME, {"H3", "H2"}, None, <<>>, <<V6_ADDR>>)>>)

CoreAnswers ==
    {HttpsNegative, HttpsPositive, AaaaNegative, AaaaPositive, ANegative, APositive}

NameAnswers ==
    {HttpsSvc1, HttpsSelfAndSvc1Twice, AaaaNegative, AaaaPositive, ANegative}

VariantAnswers == {HttpsNegative, AaaaPositive, ANegative}

ConfigAnswers ==
    {HttpsNegative, HttpsHints, AaaaNegative, AaaaPositive, ANegative, APositive}

\* A caller: the liberties it takes with the protocol, the DNS answers it
\* may deliver, the steps of its clock and the time until which it runs.
Caller(liberties, answers, ticks, horizon) ==
    [liberties |-> liberties, answers |-> answers, ticks |-> ticks, horizon |-> horizon,
     results |-> MaxConnectionResults, wrong |-> MaxWrongVariants]

\* The monitor of the drain after a ConnectionResult{Ok}: switched off.
WatchOff == [on |-> FALSE, expect |-> <<>>, got |-> <<>>]

-----------------------------------------------------------------------------
(* Actions *)

\* HappyEyeballs::new_with_network_config, for the configurations and hosts of
\* `configs` and `hosts`, driven by the caller `c`.
InitWith(configs, hosts, c) ==
    /\ network_config \in configs
    /\ host \in hosts
    /\ port = PORT
    /\ next = 0
    /\ dns_queries = <<>>
    /\ connection_attempts = <<>>
    /\ now = 0
    /\ output = NotCalled
    /\ caller = c
    /\ wake = None
    /\ answered = {}
    /\ terminals = {}
    /\ emitted = <<>>
    /\ result_since_attempt = FALSE
    /\ quiet = {}
    /\ watch = WatchOff

\* The number of attempts the caller has delivered a ConnectionResult for.
ConnectionResultsDelivered ==
    Cardinality({a \in Range(connection_attempts) : a.id \in answered})

\* The number of DNS results the caller has delivered with another variant
\* than the record type of the SendDnsQuery they answer.
WrongVariantsDelivered ==
    Cardinality({q \in Range(completed_queries) :
                    \E i \in 1..Len(emitted) :
                        /\ emitted[i].type = "SendDnsQuery"
                        /\ emitted[i].id = q.id
                        /\ emitted[i].record_type # q.response.type})

\* HappyEyeballs::process_output(now)
ProcessOutput ==
    \E e \in process_output_inner(now) :
        /\ output' = e.output
        /\ dns_queries' = e.dns_queries
        /\ connection_attempts' = e.connection_attempts
        /\ next' = e.next
        /\ terminals' = IF e.output.type \in {"Succeeded", "Failed"}
                        THEN terminals \cup {e.output.type} ELSE terminals
        /\ emitted' = IF e.output.type \in {"SendDnsQuery", "AttemptConnection"}
                      THEN Append(emitted, e.output) ELSE emitted
        /\ result_since_attempt' =
              IF e.output.type = "AttemptConnection" THEN FALSE ELSE result_since_attempt
        /\ quiet' = IF /\ e.output.type = "AttemptConnection"
                         /\ connection_attempts # <<>>
                         /\ ~result_since_attempt
                      THEN quiet \cup {e.output.id} ELSE quiet
        /\ watch' = IF watch.on /\ Len(watch.got) <= Len(watch.expect) + 1
                    THEN [watch EXCEPT !.got = Append(@, e.output)] ELSE watch
        /\ wake' = IF e.output.type = "Timer" THEN Some(now + e.output.duration) ELSE wake
        /\ UNCHANGED <<network_config, host, port, now, caller, answered>>

\* HappyEyeballs::process_input(Input::DnsResult{id, result}, now)
DnsResultInput ==
    \E id \in 0..next, result \in caller.answers :
        /\ \/ "repeat" \in caller.liberties
           \/ /\ id \notin answered
              /\ \E i \in 1..Len(dns_queries) : dns_queries[i].id = id
        /\ \/ "variant" \in caller.liberties /\ WrongVariantsDelivered < caller.wrong
           \/ \E i \in 1..Len(dns_queries) :
                 dns_queries[i].id = id /\ record_type(dns_queries[i]) = result.type
        /\ dns_queries' = on_dns_response(id, result, now)
        /\ answered' = answered \cup {id}
        /\ watch' = WatchOff
        /\ UNCHANGED <<network_config, host, port, next, connection_attempts, now, output,
                       caller, wake, terminals, emitted, result_since_attempt, quiet>>

\* HappyEyeballs::process_input(Input::ConnectionResult{id, result}, now)
ConnectionResultInput ==
    \E id \in 0..next, ok \in BOOLEAN :
        /\ \/ "repeat" \in caller.liberties
           \/ /\ id \notin answered
              /\ \E i \in 1..Len(connection_attempts) : connection_attempts[i].id = id
        /\ id \in answered \/ ConnectionResultsDelivered < caller.results
        /\ connection_attempts' = on_connection_result(id, ok)
        /\ answered' = answered \cup {id}
        /\ result_since_attempt' = TRUE
        /\ watch' =
              LET others == SelectSeq(connection_attempts,
                                      LAMBDA a : a.state = "InProgress" /\ a.id # id)
              IN  IF ok /\ \E i \in 1..Len(connection_attempts) :
                              /\ connection_attempts[i].id = id
                              /\ connection_attempts[i].state = "InProgress"
                  THEN [on |-> TRUE,
                        expect |-> Map(LAMBDA a : a.endpoint.address, others),
                        got |-> <<>>]
                  ELSE WatchOff
        /\ UNCHANGED <<network_config, host, port, next, dns_queries, now, output,
                       caller, wake, terminals, emitted, quiet>>

\* The caller's clock advances: by a tick, or to the deadline of the Timer
\* that process_output returned last.
Advance ==
    \E t \in {now + d : d \in caller.ticks} \cup Range(wake) :
        /\ now < t /\ t <= caller.horizon
        /\ now' = t
        /\ wake' = IF wake # None /\ wake[1] <= t THEN None ELSE wake
        /\ UNCHANGED <<engine, output, caller, history>>

Next == ProcessOutput \/ DnsResultInput \/ ConnectionResultInput \/ Advance

\* The race: a domain target, the answers of the tests, the whole horizon.
InitCore == InitWith({DefaultConfig}, {DomainHost}, Caller({}, CoreAnswers, LongTicks, MaxNow))

\* Discovered target names and hints, over a short horizon.
InitNames == InitWith({DefaultConfig}, {DomainHost}, Caller({}, NameAnswers, {}, ShortNow))

\* IP-literal targets.
InitIp ==
    InitWith({DefaultConfig}, {Ipv6Host, Ipv6BareHost, Ipv4Host}, Caller({}, {}, LongTicks, MaxNow))

\* A caller that answers a query with a result of any record type.
InitVariant ==
    InitWith({DefaultConfig}, {DomainHost}, Caller({"variant"}, VariantAnswers, {}, 0))

\* The configurations, for a domain and an IP-literal target, with no time
\* passing.
InitConfigs ==
    InitWith(Configs, {DomainHost, Ipv4Host, Ipv6BareHost}, Caller({}, ConfigAnswers, {}, 0))

Init == InitCore \/ InitNames \/ InitIp \/ InitVariant \/ InitConfigs

Spec == Init /\ [][Next]_vars

\* A caller that breaks the protocol: it delivers results for any Id minted
\* so far, also twice.
RepeatAnswers == {HttpsNegative, AaaaPositive, ANegative}

InitRepeat ==
    InitWith({DefaultConfig}, {DomainHost},
             Caller({"repeat"}, RepeatAnswers, {}, ShortNow))

RepeatSpec == InitRepeat /\ [][Next]_vars

-----------------------------------------------------------------------------
(* Properties *)

\* The proviso of the claims on terminal outputs: the caller delivers at most
\* one result per issued Id and none for other Ids.  It is weaker than what
\* on_connection_result asserts in a debug build (the attempt is InProgress):
\* the one result for an attempt that a CancelConnection marked Failed is
\* within it.
OneResultPerId == "repeat" \notin caller.liberties

\* C1: when each issued Id receives at most one result, process_output never
\* returns both Succeeded and Failed, and once it has returned one of them
\* every later call returns the same terminal output: no AttemptConnection, no
\* SendDnsQuery, nothing else.
C1_TerminalIsFinal ==
    OneResultPerId =>
        /\ Cardinality(terminals) <= 1
        /\ terminals # {} => output.type \in terminals

\* A drain that returned Succeeded twice in a row after cancelling an attempt.
C1_Witness ==
    /\ watch.on /\ Len(watch.expect) >= 1
    /\ Len(watch.got) = Len(watch.expect) + 2
    /\ watch.got[Len(watch.got)] = Succeeded
    /\ output = Succeeded /\ terminals = {"Succeeded"}

\* C2: after a ConnectionResult{Ok} for an in-progress attempt and with no
\* further input, the outputs drained are one CancelConnection per other
\* attempt that was in progress at that moment, in the order those attempts
\* were issued, and Succeeded from then on; and no CancelConnection is returned
\* while no attempt has succeeded.
C2_CancelThenSucceeded ==
    /\ watch.on =>
          \A k \in 1..Len(watch.got) :
              watch.got[k] = IF k <= Len(watch.expect)
                             THEN CancelConnection(watch.expect[k]) ELSE Succeeded
    /\ OneResultPerId /\ output.type = "CancelConnection" => has_successful_connection

\* A success with two other attempts in progress to different addresses and one
\* attempt that had failed before, drained to Succeeded.
C2_Witness ==
    /\ watch.on /\ Len(watch.expect) = 2 /\ watch.expect[1] # watch.expect[2]
    /\ Len(watch.got) >= 3
    /\ Len(connection_attempts) = 4

\* C3: in every state whose attempt ledger holds a Succeeded attempt,
\* process_output returns CancelConnection for the first in-progress attempt
\* when there is one and Succeeded when there is none, at the caller's time and
\* at any later time.
C3_SuccessPreempts ==
    has_successful_connection =>
        \A t \in {now, now + RESOLUTION_DELAY, now + CONNECTION_ATTEMPT_DELAY} :
            \A e \in process_output_inner(t) :
                IF has_pending_connections
                THEN e.output.type = "CancelConnection"
                ELSE e.output = Succeeded

\* A cancellation returned although a DNS query is pending and an untried
\* endpoint remains.
C3_Witness ==
    /\ has_successful_connection
    /\ output.type = "CancelConnection"
    /\ has_pending_queries
    /\ next_endpoint_to_attempt # {}
    /\ ~host_is_ip

\* C4: no two entries of the attempt ledger have equal endpoints, for a domain
\* target and for an IP-literal target.
C4_NoEndpointTwice ==
    \A i, j \in 1..Len(connection_attempts) :
        i # j => connection_attempts[i].endpoint # connection_attempts[j].endpoint

\* C5: an AttemptConnection returned with no ConnectionResult delivered since
\* the AttemptConnection before it comes at least CONNECTION_ATTEMPT_DELAY
\* after that one (an attempt's `started` is the `now` of its emission).
C5_AttemptGap ==
    \A i \in 2..Len(connection_attempts) :
        connection_attempts[i].id \in quiet =>
            connection_attempts[i].started - connection_attempts[i - 1].started
                >= CONNECTION_ATTEMPT_DELAY

\* Three attempts in a row with no ConnectionResult in between.
C5_Witness ==
    /\ Len(connection_attempts) >= 3
    /\ connection_attempts[2].id \in quiet
    /\ connection_attempts[3].id \in quiet
    /\ ~host_is_ip

\* C6 as claimed: process_output(now) returns no AttemptConnection while the
\* attempt ledger holds an attempt, in whatever state, younger than
\* CONNECTION_ATTEMPT_DELAY.
C6_NoAttemptNearAnyAttempt ==
    \A e \in process_output_inner(now) :
        e.output.type = "AttemptConnection" =>
            \A i \in 1..Len(connection_attempts) :
                duration_since(now, connection_attempts[i].started)
                    >= CONNECTION_ATTEMPT_DELAY

\* C6 as amended: process_output(now) returns no AttemptConnection while the
\* attempt ledger holds an InProgress attempt younger than
\* CONNECTION_ATTEMPT_DELAY.
C6_NoAttemptNearInProgress ==
    \A t \in {now, now + RESOLUTION_DELAY, now + CONNECTION_ATTEMPT_DELAY} :
        \A e \in process_output_inner(t) :
            e.output.type = "AttemptConnection" =>
                \A i \in 1..Len(connection_attempts) :
                    connection_attempts[i].state = "InProgress" =>
                        duration_since(t, connection_attempts[i].started)
                            >= CONNECTION_ATTEMPT_DELAY

\* An AttemptConnection just returned with an older attempt still in progress
\* and a failed attempt started at the same instant as the new one.
C6_Witness ==
    /\ output.type = "AttemptConnection"
    /\ Len(connection_attempts) >= 3
    /\ \E i, j \in 1..Len(connection_attempts) - 1 :
          /\ connection_attempts[i].state = "InProgress"
          /\ connection_attempts[j].state = "Failed"
          /\ connection_attempts[j].started = connection_attempts[Len(connection_attempts)].started
    /\ connection_attempts[Len(connection_attempts)].started = now
    /\ terminals = {}

\* C7: for a domain target the first three calls of process_output return
\* SendDnsQuery for the primary target with record types Https, Aaaa, A, one
\* per call, and the record types of the SendDnsQuery outputs of any one
\* target name are emitted in the order Https, Aaaa, A without repetition.
C7_QueryOrder ==
    host.kind = "Domain" =>
        /\ Len(emitted) < 3 => output.type \in {"NotCalled", "SendDnsQuery"}
        /\ \A k \in 1..Len(emitted) :
              k <= 3 => emitted[k] = SendDnsQuery(k - 1, host.value, <<"Https", "Aaaa", "A">>[k])
        /\ \A i, j \in 1..Len(emitted) :
              /\ i < j
              /\ emitted[i].type = "SendDnsQuery" /\ emitted[j].type = "SendDnsQuery"
              /\ emitted[i].hostname = emitted[j].hostname
              => \/ emitted[i].record_type = "Https" /\ emitted[j].record_type \in {"Aaaa", "A"}
                 \/ emitted[i].record_type = "Aaaa" /\ emitted[j].record_type = "A"

\* C8: the DNS ledger holds at most one query per (target name, record type
\* asked for), and no (target name, record type) is the subject of two
\* SendDnsQuery outputs.
C8_OneQueryPerNameAndType ==
    /\ \A i, j \in 1..Len(emitted) :
          /\ i # j
          /\ emitted[i].type = "SendDnsQuery" /\ emitted[j].type = "SendDnsQuery"
          => <<emitted[i].hostname, emitted[i].record_type>>
                 # <<emitted[j].hostname, emitted[j].record_type>>
    /\ \A i, j \in 1..Len(dns_queries) :
          i # j =>
              \A k, l \in 1..Len(emitted) :
                  /\ emitted[k].type = "SendDnsQuery" /\ emitted[k].id = dns_queries[i].id
                  /\ emitted[l].type = "SendDnsQuery" /\ emitted[l].id = dns_queries[j].id
                  => <<dns_queries[i].target_name, emitted[k].record_type>>
                         # <<dns_queries[j].target_name, emitted[l].record_type>>

\* C9: the k-th Id-carrying output carries Id k-1, the counter stands at the
\* number of Ids issued, and every issued Id has exactly one entry, in the DNS
\* ledger for a SendDnsQuery and in the attempt ledger for an
\* AttemptConnection, and none in the other ledger.
C9_IdsCountUp ==
    /\ next = Len(emitted)
    /\ \A k \in 1..Len(emitted) :
          LET queries == {i \in 1..Len(dns_queries) : dns_queries[i].id = k - 1}
              attempts == {i \in 1..Len(connection_attempts) :
                              connection_attempts[i].id = k - 1}
          IN  /\ emitted[k].id = k - 1
              /\ emitted[k].type = "SendDnsQuery"
                    => Cardinality(queries) = 1 /\ attempts = {}
              /\ emitted[k].type = "AttemptConnection"
                    => Cardinality(attempts) = 1 /\ queries = {}

\* Queries for the primary target and for a discovered one, then two
\* connection attempts, all from the one counter.
C9_Witness ==
    /\ Len(emitted) >= 7
    /\ \E k \in 1..Len(emitted) :
          emitted[k].type = "SendDnsQuery" /\ emitted[k].hostname # host.value
    /\ emitted[Len(emitted) - 1].type = "AttemptConnection"
    /\ emitted[Len(emitted)].type = "AttemptConnection"

\* C10: for a domain target process_output(now) returns AttemptConnection only
\* when (non-timeout) a positive address answer or a non-empty HTTPS hint has
\* been received and the primary target's queries for the preferred family
\* and for HTTPS are completed, or (timeout) a positive A or AAAA answer has
\* been received and some query completed at least RESOLUTION_DELAY ago.
C10_AttemptOnlyWhenReady ==
    host.kind = "Domain" =>
        \A e \in process_output_inner(now) :
            e.output.type = "AttemptConnection" =>
                LET done == Range(completed_queries)
                    address_answer ==
                        \E q \in done : q.response.type \in {"Aaaa", "A"} /\ q.response.ok
                    hint ==
                        \E q \in done :
                            /\ q.response.type = "Https" /\ q.response.ok
                            /\ \E info \in Range(q.response.val) :
                                  info.ipv4_hints # <<>> \/ info.ipv6_hints # <<>>
                    primary(rt) ==
                        \E q \in done : q.target_name = host.value /\ q.response.type = rt
                    aged ==
                        \E q \in done : now - q.completed >= RESOLUTION_DELAY
                IN  \/ /\ address_answer \/ hint
                       /\ primary(preferred_dns_record_type)
                       /\ primary("Https")
                    \/ address_answer /\ aged

\* Non-timeout readiness for the primary target: its HTTPS query and its
\* preferred-family query are answered and some answer carries an address.
ReadyWithoutTimeout ==
    /\ \E q \in Range(completed_queries) :
          q.target_name = host.value /\ q.response.type = "Https"
    /\ \E q \in Range(completed_queries) :
          q.target_name = host.value /\ q.response.type = preferred_dns_record_type
    /\ \E q \in Range(completed_queries) :
          \/ q.response.type \in {"Aaaa", "A"} /\ q.response.ok /\ q.response.val # <<>>
          \/ /\ q.response.type = "Https" /\ q.response.ok
             /\ \E info \in Range(q.response.val) :
                   info.ipv4_hints # <<>> \/ info.ipv6_hints # <<>>

\* Instants after `now` at which a call of process_output is examined.
Ahead == {0, 10, RESOLUTION_DELAY - 1, RESOLUTION_DELAY, RESOLUTION_DELAY + 10,
          CONNECTION_ATTEMPT_DELAY}

\* C11: for a domain target with its three queries issued, a protocol to
\* attempt, no attempt made yet, a positive non-empty A or AAAA answer
\* received and non-timeout readiness of the primary target not met, where t
\* is the time of the earliest DNS response: process_output(T) returns no
\* AttemptConnection for T < t + RESOLUTION_DELAY and returns
\* AttemptConnection for every T >= t + RESOLUTION_DELAY.
C11_DelayFromFirstResponse ==
    (/\ host.kind = "Domain"
     /\ missing_record_types = <<>>
     /\ connection_attempt_protocols # {}
     /\ connection_attempts = <<>>
     /\ ~ReadyWithoutTimeout
     /\ \E q \in Range(completed_queries) :
           q.response.type \in {"Aaaa", "A"} /\ q.response.ok /\ q.response.val # <<>>)
    => LET first == Min({q.completed : q \in Range(completed_queries)})
       IN  \A d \in Ahead :
               LET T == now + d
                   types == {e.output.type : e \in process_output_inner(T)}
               IN  IF T < first + RESOLUTION_DELAY
                   THEN "AttemptConnection" \notin types
                   ELSE types = {"AttemptConnection"}

\* C11, where the code's own readiness test agrees with the primary
\* target's readiness: the delay runs from the earliest response.
C11_DelayWhereReadinessAgrees ==
    (/\ host.kind = "Domain"
     /\ missing_record_types = <<>>
     /\ connection_attempt_protocols # {}
     /\ connection_attempts = <<>>
     /\ ~ReadyWithoutTimeout
     /\ ~move_on_without_timeout
     /\ \E q \in Range(completed_queries) :
           q.response.type \in {"Aaaa", "A"} /\ q.response.ok /\ q.response.val # <<>>)
    => LET first == Min({q.completed : q \in Range(completed_queries)})
       IN  \A d \in Ahead :
               LET T == now + d
                   types == {e.output.type : e \in process_output_inner(T)}
               IN  IF T < first + RESOLUTION_DELAY
                   THEN "AttemptConnection" \notin types
                   ELSE types = {"AttemptConnection"}

\* The first attempt was just made one Resolution Delay after a first
\* response that arrived later than time 0, on the timeout rule alone.
C11_Witness ==
    /\ host.kind = "Domain"
    /\ output.type = "AttemptConnection"
    /\ Len(connection_attempts) = 1
    /\ ~move_on_without_timeout
    /\ LET first == Min({q.completed : q \in Range(completed_queries)})
       IN  first > 0 /\ connection_attempts[1].started = first + RESOLUTION_DELAY
                     /\ now = first + RESOLUTION_DELAY

\* C12: in a state with no Succeeded attempt, no InProgress DNS query, no
\* InProgress attempt, no DNS query left to issue and every candidate
\* endpoint already attempted (for an IP-literal target: its one candidate),
\* process_output returns Failed.
C12_ExhaustionFails ==
    LET candidates ==
            IF host_is_ip
            THEN {Endpoint(SocketAddr(IF host.kind = "Ipv6" THEN IpV6(host.value)
                                                           ELSE IpV4(host.value), port),
                           p, None) : p \in connection_attempt_protocols}
            ELSE Elements(flattened_endpoints)
        queries_left ==
            ~host_is_ip /\ (missing_record_types # <<>> \/ missing_target_queries # <<>>)
    IN  (/\ ~has_successful_connection
         /\ ~has_pending_queries
         /\ ~has_pending_connections
         /\ ~queries_left
         /\ \A c \in candidates : attempted(c))
        => \A e \in process_output_inner(now) : e.output = Failed

\* An obedient caller: it keeps draining process_output, eventually delivers
\* a result for every query and attempt it was handed, and lets its clock
\* run on to the deadline of a Timer.
Obedient ==
    /\ WF_vars(ProcessOutput)
    /\ WF_vars(DnsResultInput)
    /\ WF_vars(ConnectionResultInput)
    /\ WF_vars(Advance)

\* DNS answers without ALPN: the candidates of a domain target are then its
\* two addresses with H2OrH1, which fit the attempt ledger explored.
PlainAnswers == {HttpsNegative, AaaaNegative, AaaaPositive, ANegative, APositive}

InitPlain ==
    InitWith({DefaultConfig}, {DomainHost}, Caller({}, PlainAnswers, LongTicks, MaxNow))

\* The engine with an obedient caller, for a domain target and for an
\* IP-literal target.
FairInit == InitPlain \/ InitIp
FairSpec == FairInit /\ [][Next]_vars /\ Obedient

\* Every SendDnsQuery and every AttemptConnection issued so far has been
\* answered, and no attempt has succeeded.
AllAnsweredInVain ==
    /\ ~has_pending_queries
    /\ ~has_pending_connections
    /\ ~has_successful_connection

\* What process_output may return once everything issued has been answered in
\* vain, if the run is to end: Failed, a Timer, a query not asked before or
\* an attempt of an endpoint not attempted before. Queries and endpoints are
\* finitely many, so such a run ends; an engine that asks again for what has
\* just failed is back in the situation it was in and asks for ever.
AnsweredWorkIsNew ==
    AllAnsweredInVain =>
        \A e \in process_output_inner(now) :
            \/ e.output.type \in {"Failed", "Timer"}
            \/ /\ e.output.type = "SendDnsQuery"
               /\ \A i \in 1..Len(emitted) :
                     emitted[i].type = "SendDnsQuery" =>
                         <<emitted[i].hostname, emitted[i].record_type>>
                             # <<e.output.hostname, e.output.record_type>>
            \/ /\ e.output.type = "AttemptConnection"
               /\ \A a \in Range(connection_attempts) : a.endpoint # e.output.endpoint

\* With an obedient caller a domain target ends in Succeeded or Failed.
DomainEventuallyTerminal ==
    host.kind = "Domain" => <>(output.type \in {"Succeeded", "Failed"})

\* C13: with an obedient caller the engine eventually returns Succeeded or
\* Failed, for a domain and for an IP-literal target: the run of a domain
\* target reaches a terminal output, and for either kind of target the
\* engine, once everything it issued has been answered in vain, returns a
\* terminal output or a Timer or asks for something it has not asked before.
C13_EventuallyTerminal ==
    /\ DomainEventuallyTerminal
    /\ []AnsweredWorkIsNew

\* The work left to a drain of process_output at the instant `now`: the
\* attempts still to cancel once one has Succeeded; otherwise the queries
\* still to send plus the one attempt the Connection Attempt Delay allows.
DrainWork ==
    IF has_successful_connection
    THEN Cardinality({i \in 1..Len(connection_attempts) :
                         connection_attempts[i].state = "InProgress"})
    ELSE (IF host_is_ip THEN 0
          ELSE Len(missing_record_types) + Len(missing_target_queries))
         + (IF \E i \in 1..Len(connection_attempts) :
                  /\ connection_attempts[i].state = "InProgress"
                  /\ within_delay(connection_attempts[i], now)
            THEN 0 ELSE 1)

\* C14: every call of process_output that returns SendDnsQuery,
\* AttemptConnection or CancelConnection strictly decreases DrainWork, a
\* natural number, so a drain at a fixed `now` with no input returns None,
\* Timer, Succeeded or Failed after at most DrainWork calls.
C14_DrainTerminates ==
    [][(ProcessOutput /\ output'.type \in {"SendDnsQuery", "AttemptConnection",
                                          "CancelConnection"})
       => DrainWork' < DrainWork]_vars

\* A drain that sent a query for a discovered target name and started an
\* attempt has come to rest on a Timer at the same instant.
C14_Witness ==
    /\ output.type = "Timer"
    /\ \E i \in 1..Len(dns_queries) :
          dns_queries[i].state = "InProgress" /\ dns_queries[i].target_name # host.value
    /\ connection_attempts # <<>>
    /\ connection_attempts[Len(connection_attempts)].started = now
    /\ emitted[Len(emitted)].type = "SendDnsQuery"
    /\ emitted[Len(emitted) - 1].type \in {"AttemptConnection", "SendDnsQuery"}
    /\ now = 0

\* C15: a call process_output(T) that returns None, Timer, Succeeded or Failed
\* leaves both ledgers and the Id counter as they were, and is the only
\* outcome of the call at T, so that calling again at T with no input returns
\* the same output.
C15_RestIsIdempotent ==
    \A d \in Ahead :
        \A e \in process_output_inner(now + d) :
            e.output.type \in {"None", "Timer", "Succeeded", "Failed"}
            => process_output_inner(now + d)
                   = {Effect(e.output, dns_queries, connection_attempts, next)}

\* A Timer for the rest of a Connection Attempt Delay was just returned and a
\* second call at the same instant returns it again.
C15_Witness ==
    /\ output = Timer(CONNECTION_ATTEMPT_DELAY - RESOLUTION_DELAY)
    /\ process_output_inner(now) = {Effect(output, dns_queries, connection_attempts, next)}
    /\ has_pending_connections


-----------------------------------------------------------------------------
\* The family the configuration prefers is IPv6.
PrefersIpv6 == network_config.ip \in {"DualStackPreferV6", "Ipv6Only"}

\* C16: whenever AttemptConnection is emitted for a domain target, no
\* candidate endpoint that has not been attempted yet has a protocol earlier
\* in H3 < H2OrH1 < H2 < H1 than the emitted one, and none has the same
\* protocol and the preferred address family when the emitted endpoint is of
\* the other family.
C16_AttemptIsMinimal ==
    host.kind = "Domain" =>
        \A d \in Ahead :
            \A e \in process_output_inner(now + d) :
                e.output.type = "AttemptConnection" =>
                    \A c \in Elements(flattened_endpoints) :
                        ~attempted(c) =>
                            /\ ProtocolOrd(c.protocol) >= ProtocolOrd(e.output.endpoint.protocol)
                            /\ (/\ c.protocol = e.output.endpoint.protocol
                                /\ e.output.endpoint.address.ip.v6 # PrefersIpv6)
                               => c.address.ip.v6 # PrefersIpv6

\* With ALPN h3, h2 and every attempt failing, the attempts were made in the
\* order v6/H3, v4/H3, v6/H2, v4/H2.
C16_Witness ==
    /\ host.kind = "Domain"
    /\ network_config.ip = "DualStackPreferV6"
    /\ Len(connection_attempts) = 4
    /\ \A i \in 1..4 : connection_attempts[i].state = "Failed"
    /\ [i \in 1..4 |-> <<connection_attempts[i].endpoint.address.ip.v6,
                         connection_attempts[i].endpoint.protocol>>]
       = <<<<TRUE, "H3">>, <<FALSE, "H3">>, <<TRUE, "H2">>, <<FALSE, "H2">>>>


-----------------------------------------------------------------------------
\* The IPv6 black-hole scenario: example.com with DualStackPreferV6, the
\* answers HTTPS=Ok(ALPN h3, h2), AAAA=Ok([v6]) and A=Ok([v4]) received, and
\* every attempt so far, all within {v6, v4} x protocols, answered with
\* ConnectionResult(Err).
BlackHoleEndpoints(protocols) ==
    {Endpoint(SocketAddr(ip, PORT), p, None) :
        ip \in {IpV6(V6_ADDR), IpV4(V4_ADDR)}, p \in protocols}

InBlackHole(protocols) ==
    /\ host = DomainHost
    /\ network_config = DefaultConfig
    /\ {q.response : q \in Range(completed_queries)} = {HttpsPositive, AaaaPositive, APositive}
    /\ Len(completed_queries) = Len(dns_queries)
    /\ \A a \in Range(connection_attempts) :
          a.state = "Failed" /\ a.endpoint \in BlackHoleEndpoints(protocols)

\* In the scenario the engine's next output is: the v6/H3 attempt when
\* nothing was attempted, else an attempt of another endpoint of
\* {v6, v4} x protocols while one is left, else Failed.
BlackHole(protocols) ==
    InBlackHole(protocols) =>
        LET tried == {a.endpoint : a \in Range(connection_attempts)}
            outputs == {e.output : e \in process_output_inner(now)}
        IN  /\ outputs # {}
            /\ \A o \in outputs :
                  IF tried = {}
                  THEN /\ o.type = "AttemptConnection"
                       /\ o.endpoint = Endpoint(SocketAddr(IpV6(V6_ADDR), PORT), "H3", None)
                  ELSE IF tried # BlackHoleEndpoints(protocols)
                  THEN /\ o.type = "AttemptConnection"
                       /\ o.endpoint \in BlackHoleEndpoints(protocols) \ tried
                  ELSE o = Failed

\* C17 as stated: IPv6 black-hole scenario, the first attempt is v6/H3, the
\* next candidate is attempted after each failure, the attempted endpoints
\* are exactly {v6, v4} x {H3, H2OrH1}, and Failed follows the fourth failure.
C17_BlackHoleH2OrH1 == BlackHole({"H3", "H2OrH1"})

\* C17 (amended): IPv6 black-hole scenario, the first attempt is v6/H3, the
\* next candidate is attempted after each failure, the attempted endpoints
\* are exactly {v6, v4} x {H3, H2}, and Failed follows the fourth failure.
C17_BlackHoleH2 == BlackHole({"H3", "H2"})

\* All four endpoints of {v6, v4} x {H3, H2} failed and Failed was emitted.
C17_Witness ==
    /\ InBlackHole({"H3", "H2"})
    /\ Len(connection_attempts) = 4
    /\ {a.endpoint : a \in Range(connection_attempts)} = BlackHoleEndpoints({"H3", "H2"})
    /\ output = Failed


-----------------------------------------------------------------------------
\* The union of the ALPNs of all completed positive HTTPS responses.
ObservedAlpn ==
    UNION {info.alpn_protocols :
              info \in UNION {Range(q.response.val) :
                                 q \in {c \in Range(completed_queries) :
                                           c.response.type = "Https" /\ c.response.ok}}}

\* The HTTP versions disabled in HttpVersions.
DisabledVersions ==
    {v \in Protocol :
        \/ v = "H3" /\ ~network_config.http_versions.h3
        \/ v = "H2" /\ ~network_config.http_versions.h2
        \/ v = "H1" /\ ~network_config.http_versions.h1}

\* H2 and H1 collapsed into H2OrH1 when both are present.
Collapsed(versions) ==
    IF {"H2", "H1"} \subseteq versions
    THEN (versions \ {"H2", "H1"}) \cup {"H2OrH1"}
    ELSE versions

\* C18: the protocol set used for endpoints built from AAAA/A answers is the
\* union of the ALPNs of all completed positive HTTPS responses, replaced by
\* {H2, H1} when empty, plus every alt-svc protocol, minus every disabled
\* version, with H2 and H1 collapsed into H2OrH1 when both are present.  So no
\* HTTPS ALPN gives {H2OrH1}, ALPN {H3, H2} gives {H3, H2}, and a negative
\* HTTPS answer with alt-svc H3 gives {H3, H2OrH1} with H3 attempted first.
C18_ProtocolSet ==
    LET seeded == IF ObservedAlpn = {} THEN {"H2", "H1"} ELSE ObservedAlpn
        alt == {a.protocol : a \in Range(network_config.alt_svc)}
        expected == Collapsed((seeded \cup alt) \ DisabledVersions)
    IN  /\ connection_attempt_protocols = expected
        /\ host.kind = "Domain" =>
              \A q \in Range(completed_queries) :
                  (q.response.type \in {"Aaaa", "A"} /\ q.response.ok /\ q.response.val # <<>>)
                  => {e.protocol :
                         e \in Elements(DnsResult_flatten_into_endpoints(
                                         q.response, port, got_dns_a_response,
                                         got_dns_aaaa_response, connection_attempt_protocols,
                                         ech_config))} = expected
        /\ (network_config = DefaultConfig /\ ObservedAlpn = {}) => expected = {"H2OrH1"}
        /\ (network_config = DefaultConfig /\ ObservedAlpn = {"H3", "H2"})
           => expected = {"H3", "H2"}
        /\ (network_config = AltSvcH3Config /\ ObservedAlpn = {})
           => /\ expected = {"H3", "H2OrH1"}
              /\ (host.kind = "Domain" /\ connection_attempts = <<>>) =>
                    \A e \in process_output_inner(now) :
                        e.output.type = "AttemptConnection"
                        => e.output.endpoint.protocol = "H3"

\* alt_svc_used_immediately: with alt-svc H3, a negative HTTPS answer and a
\* positive AAAA answer, the first attempt was made, with H3.
C18_Witness ==
    /\ network_config = AltSvcH3Config
    /\ host.kind = "Domain"
    /\ {q.response : q \in Range(completed_queries)} = {HttpsNegative, AaaaPositive}
    /\ connection_attempt_protocols = {"H3", "H2OrH1"}
    /\ Len(connection_attempts) = 1
    /\ output.type = "AttemptConnection" /\ output.endpoint.protocol = "H3"


-----------------------------------------------------------------------------
\* The HTTP versions a connection-attempt protocol needs.
VersionsNeeded(p) == IF p = "H2OrH1" THEN {"H2", "H1"} ELSE {p}

\* C19: no emitted AttemptConnection carries a protocol that needs a version
\* disabled in NetworkConfig.http_versions, whether the address came from an
\* A/AAAA answer, from an HTTPS hint or from an IP-literal host.
C19_NoDisabledVersion ==
    \A i \in 1..Len(emitted) :
        emitted[i].type = "AttemptConnection"
        => VersionsNeeded(emitted[i].endpoint.protocol) \cap DisabledVersions = {}


-----------------------------------------------------------------------------
\* A positive non-empty answer of record type rt has been received for the
\* target name T.
PositiveAnswerFor(T, rt) ==
    \E q \in Range(completed_queries) :
        /\ q.target_name = T
        /\ q.response.type = rt /\ q.response.ok /\ q.response.val # <<>>

\* The addresses of the candidate endpoints that the hints of a service-info
\* record contribute to the current planning call.
HintCandidates(info) ==
    {e.address :
        e \in Elements(ServiceInfo_flatten_into_endpoints(
                        info, port, got_dns_a_response, got_dns_aaaa_response))}

\* C20: at every planning call an ipv6 (resp. ipv4) hint address of a
\* ServiceInfo with target name T (one that advertises a protocol to attempt
\* it with) is a candidate endpoint if and only if no
\* positive non-empty AAAA (resp. A) answer has been received for T; with
\* AAAA and A negative and an HTTPS answer with the hint 2001:db8::1 and ALPN
\* h2, h3 the next output is AttemptConnection to [2001:db8::1]:443 with H3.
C20_HintsPerTarget ==
    host.kind = "Domain" =>
        /\ \A q \in Range(completed_queries) :
              (q.response.type = "Https" /\ q.response.ok) =>
                  \A info \in Range(q.response.val) :
                      info.alpn_protocols # {} =>
                          /\ \A h \in Range(info.ipv6_hints) :
                                SocketAddr(IpV6(h), port) \in HintCandidates(info)
                                <=> ~PositiveAnswerFor(info.target_name, "Aaaa")
                          /\ \A h \in Range(info.ipv4_hints) :
                                SocketAddr(IpV4(h), port) \in HintCandidates(info)
                                <=> ~PositiveAnswerFor(info.target_name, "A")
        /\ (/\ network_config = DefaultConfig
            /\ {q.response : q \in Range(completed_queries)}
               = {HttpsHints, AaaaNegative, ANegative}
            /\ Len(completed_queries) = Len(dns_queries)
            /\ connection_attempts = <<>>)
           => {e.output : e \in process_output_inner(now)}
              = {AttemptConnection(next, Endpoint(SocketAddr(IpV6(V6_ADDR), port), "H3", None))}


-----------------------------------------------------------------------------
\* The ECH configs found on the completed positive HTTPS records of the
\* primary target, in ledger order and then in record order.
PrimaryEchConfigs ==
    Flatten(Map(LAMBDA q : Map(LAMBDA info : info.ech_config,
                               SelectSeq(q.response.val, LAMBDA info : info.ech_config # None)),
                SelectSeq(completed_queries,
                          LAMBDA q : /\ q.response.type = "Https" /\ q.response.ok
                                     /\ q.target_name = host.value)))

\* The endpoint's address was given by a positive AAAA or A answer, and by no
\* hint that is a candidate now.
FromAddressAnswer(endpoint) ==
    /\ \E q \in Range(completed_queries) :
          /\ q.response.type \in {"Aaaa", "A"} /\ q.response.ok
          /\ endpoint.address.ip.v6 = (q.response.type = "Aaaa")
          /\ endpoint.address.ip.addr \in Range(q.response.val)
    /\ \A q \in Range(completed_queries) :
          (q.response.type = "Https" /\ q.response.ok) =>
              \A info \in Range(q.response.val) : endpoint.address \notin HintCandidates(info)

\* C21: every AttemptConnection endpoint built from an AAAA or A answer
\* carries the first ech_config found on a completed positive HTTPS record of
\* the primary target, None when there is none, also when the HTTPS answer
\* arrived before the address answer; an attempt emitted before any HTTPS
\* answer carries None.
C21_EchPropagation ==
    host.kind = "Domain" =>
        \A e \in process_output_inner(now) :
            (e.output.type = "AttemptConnection" /\ FromAddressAnswer(e.output.endpoint)) =>
                /\ e.output.endpoint.ech_config
                   = IF PrimaryEchConfigs = <<>> THEN None ELSE Head(PrimaryEchConfigs)
                /\ (~\E q \in Range(completed_queries) : q.response.type = "Https")
                   => e.output.endpoint.ech_config = None

\* An HTTPS answer with an ECH config arrived before the AAAA answer, and the
\* attempt to the AAAA address carries the config.
C21_Witness ==
    /\ host.kind = "Domain"
    /\ Len(completed_queries) >= 2
    /\ completed_queries[1].response = HttpsSelfAndSvc1Twice
    /\ \E q \in Range(completed_queries) : q.response = AaaaPositive
    /\ output.type = "AttemptConnection"
    /\ output.endpoint.address = SocketAddr(IpV6(V6_ADDR), port)
    /\ output.endpoint.ech_config = Some(ECH_CONFIG)
    /\ connection_attempts[Len(connection_attempts)].endpoint = output.endpoint


-----------------------------------------------------------------------------
\* The engine is fresh: nothing was put in nor taken out since construction.
Fresh == next = 0 /\ dns_queries = <<>> /\ connection_attempts = <<>> /\ output = NotCalled

\* The address literal:port of an IP-literal host.
LiteralAddress ==
    SocketAddr(IF host.kind = "Ipv6" THEN IpV6(host.value) ELSE IpV4(host.value), port)

\* For an IP-literal target no SendDnsQuery is ever emitted.
NoDnsForLiteral ==
    /\ \A i \in 1..Len(emitted) : emitted[i].type # "SendDnsQuery"
    /\ \A e \in process_output_inner(now) : e.output.type # "SendDnsQuery"
    /\ dns_queries = <<>>

\* The first process_output returns AttemptConnection with Id 0, the address
\* literal:port and no ECH config.
FirstIsLiteralAttempt ==
    LET outputs == {e.output : e \in process_output_inner(now)}
    IN  /\ outputs # {}
        /\ \A o \in outputs :
              /\ o.type = "AttemptConnection"
              /\ o.id = 0
              /\ o.endpoint.address = LiteralAddress
              /\ o.endpoint.ech_config = None

\* A bracketed and a bare IPv6 literal give the same Host::Ipv6, a dotted quad
\* gives Host::Ipv4, and a text neither parser accepts is refused.
LiteralsParse ==
    /\ new_host(BracketedV6Text) = Some([kind |-> "Ipv6", value |-> V6_ADDR])
    /\ new_host(BareV6Text) = new_host(BracketedV6Text)
    /\ new_host(V4Text) = Some([kind |-> "Ipv4", value |-> V4_ADDR])
    /\ new_host(RefusedText) = None

\* C22, as stated: for an IP-literal target, bracketed or bare, the engine
\* never emits SendDnsQuery, and the first process_output on a fresh engine
\* returns AttemptConnection with Id 0, address literal:port and no ECH
\* config, whatever the configuration.
C22_LiteralAttemptsAtOnce ==
    host.kind \in {"Ipv4", "Ipv6"} =>
        /\ LiteralsParse
        /\ NoDnsForLiteral
        /\ Fresh => FirstIsLiteralAttempt

\* C22, amended: for an IP-literal target, bracketed or bare, the engine
\* never emits SendDnsQuery; the first process_output on a fresh engine
\* returns AttemptConnection with Id 0, address literal:port and no ECH
\* config when the configuration leaves a protocol to attempt, and Failed
\* when it leaves none (every HTTP version disabled, no alt-svc).
C22_LiteralAttemptsIfProtocol ==
    host.kind \in {"Ipv4", "Ipv6"} =>
        /\ LiteralsParse
        /\ NoDnsForLiteral
        /\ Fresh =>
              IF connection_attempt_protocols # {}
              THEN FirstIsLiteralAttempt
              ELSE {e.output : e \in process_output_inner(now)} = {Failed}

\* The first output for an IP-literal target was the attempt with Id 0.
C22_Witness ==
    /\ host.kind \in {"Ipv4", "Ipv6"}
    /\ Len(emitted) = 1
    /\ output.type = "AttemptConnection"
    /\ output = AttemptConnection(0, Endpoint(LiteralAddress, output.endpoint.protocol, None))
    /\ Len(connection_attempts) = 1


-----------------------------------------------------------------------------
\* C23: for an IP-literal target the attempted endpoint's protocol is the
\* first member in H3 < H2OrH1 < H2 < H1 of the effective protocol set, the
\* same in every run: with alt-svc H3 and all versions enabled it is H3.
C23_LiteralProtocolIsBest ==
    host.kind \in {"Ipv4", "Ipv6"} =>
        LET attempts == {e.output : e \in {x \in process_output_inner(now) :
                                              x.output.type = "AttemptConnection"}}
        IN  /\ Cardinality(attempts) <= 1
            /\ \A o \in attempts :
                  /\ \A p \in connection_attempt_protocols :
                        ProtocolOrd(o.endpoint.protocol) <= ProtocolOrd(p)
                  /\ network_config = AltSvcH3Config => o.endpoint.protocol = "H3"


-----------------------------------------------------------------------------
\* The DNS results a caller can hand in: the answers of the scenarios.
AnyDnsResult ==
    {HttpsNegative, HttpsPositive, HttpsSvc1, AaaaNegative, AaaaPositive, ANegative, APositive}

\* C24: a DnsResult input whose Id matches no DNS ledger entry (also the Id of
\* a connection attempt, or one not minted yet), or matches an entry that is
\* already Completed, leaves the DNS ledger as it is, with the first result
\* and its completion time; the input touches nothing else, so later outputs
\* are those of the engine that never saw it.
C24_StrayDnsResultDropped ==
    \A id \in 0..(next + 1), result \in AnyDnsResult :
        (~\E i \in 1..Len(dns_queries) :
              dns_queries[i].id = id /\ dns_queries[i].state = "InProgress")
        => on_dns_response(id, result, now) = dns_queries

\* A caller that repeats results holds an answered query, completed earlier
\* than now, whose repeated result is dropped, and an attempt whose Id names
\* no query.
C24_Witness ==
    /\ "repeat" \in caller.liberties
    /\ connection_attempts # <<>>
    /\ \E q \in Range(completed_queries) :
          /\ q.response = AaaaPositive
          /\ q.completed < now
          /\ q.id \in answered
          /\ on_dns_response(q.id, AaaaPositive, now) = dns_queries


-----------------------------------------------------------------------------
\* C25: a ConnectionResult input for an unknown Id, or for an attempt that is
\* not InProgress (Failed, Succeeded, or marked Failed by an emitted
\* CancelConnection), is dropped: no attempt that was not InProgress changes
\* its state, so a late Ok does not make a failed attempt Succeeded and a
\* late Err does not make the Succeeded attempt Failed.
C25_LateConnectionResultDropped ==
    [][ConnectionResultInput =>
          /\ Len(connection_attempts') = Len(connection_attempts)
          /\ \A i \in 1..Len(connection_attempts) :
                connection_attempts[i].state # "InProgress"
                => connection_attempts'[i] = connection_attempts[i]]_vars


-----------------------------------------------------------------------------
\* The candidate endpoints that no attempt has been made to.
UntriedCandidates ==
    {c \in (IF host_is_ip
            THEN {Endpoint(LiteralAddress, p, None) : p \in connection_attempt_protocols}
            ELSE Elements(flattened_endpoints)) : ~attempted(c)}

\* C26: after a ConnectionResult{id, Err} for an attempt that started less
\* than CONNECTION_ATTEMPT_DELAY ago, with no InProgress attempt younger than
\* that delay, an untried candidate endpoint left (and, the engine not being
\* done, no Succeeded attempt), process_output at the same `now` emits
\* AttemptConnection for an untried candidate.
C26_NoStaggerAfterFailure ==
    (/\ \E a \in Range(connection_attempts) :
           a.state = "Failed" /\ duration_since(now, a.started) < CONNECTION_ATTEMPT_DELAY
     /\ ~\E a \in Range(connection_attempts) :
           a.state = "InProgress" /\ duration_since(now, a.started) < CONNECTION_ATTEMPT_DELAY
     /\ ~\E a \in Range(connection_attempts) : a.state = "Succeeded"
     /\ UntriedCandidates # {})
    => LET outputs == {e.output : e \in process_output_inner(now)}
       IN  /\ outputs # {}
           /\ \A o \in outputs :
                 o.type = "AttemptConnection" /\ o.endpoint \in UntriedCandidates


-----------------------------------------------------------------------------
\* A discovered name with an address hint, under an obedient caller and
\* scheduler.
HintedNameAnswers == {HttpsSvc1, AaaaNegative, ANegative}

InitHintedName ==
    InitWith({DefaultConfig}, {DomainHost}, Caller({}, HintedNameAnswers, {}, ShortNow))

NamesFairSpec == InitHintedName /\ [][Next]_vars /\ Obedient

\* The same answers from a caller that may once answer a query with a result
\* of another record type.
InitHintedVariant ==
    InitWith({DefaultConfig}, {DomainHost},
             [Caller({"variant"}, HintedNameAnswers, {}, ShortNow) EXCEPT !.wrong = 1])

NamesVariantFairSpec == InitHintedVariant /\ [][Next]_vars /\ Obedient

\* The target names other than the primary one found in completed positive
\* HTTPS responses.
DiscoveredNames == Range(discovered_target_names) \ {host.value}

\* The positions in the history of emitted outputs of SendDnsQuery(T, rt).
Asked(T, rt) ==
    {i \in 1..Len(emitted) :
        /\ emitted[i].type = "SendDnsQuery"
        /\ emitted[i].hostname = T /\ emitted[i].record_type = rt}

\* SendDnsQuery(T, Aaaa) and SendDnsQuery(T, A) are emitted at most once each
\* and AAAA first, and SendDnsQuery(T, Https) never.
AskedInOrder(T) ==
    /\ Cardinality(Asked(T, "Aaaa")) <= 1
    /\ Cardinality(Asked(T, "A")) <= 1
    /\ \A i \in Asked(T, "A") : \E j \in Asked(T, "Aaaa") : j < i
    /\ Asked(T, "Https") = {}

\* C27: for every target name T other than the primary one found in a
\* completed positive HTTPS response, as long as no attempt has succeeded,
\* draining process_output eventually emits SendDnsQuery(T, Aaaa) and then
\* SendDnsQuery(T, A), each exactly once and AAAA first, also when the record
\* carries address hints; SendDnsQuery(T, Https) is never emitted for T.
C27_DiscoveredNamesQueried ==
    /\ [](host.kind = "Domain" => \A T \in DiscoveredNames : AskedInOrder(T))
    /\ \A T \in {SVC1} :
          (host.kind = "Domain" /\ T \in DiscoveredNames)
          ~> (\/ has_successful_connection
              \/ Asked(T, "Aaaa") # {} /\ Asked(T, "A") # {})

\* The name svc1 was discovered in a record with an address hint and both of
\* its queries were emitted, after the three queries of the primary target.
C27_Witness ==
    /\ \E q \in Range(completed_queries) : q.response = HttpsSvc1
    /\ ~has_successful_connection
    /\ Asked(SVC1, "Aaaa") # {} /\ Asked(SVC1, "A") # {}
    /\ AskedInOrder(SVC1)


-----------------------------------------------------------------------------
\* The InProgress attempts, and those younger than CONNECTION_ATTEMPT_DELAY
\* at time t.
InProgressAttempts == {a \in Range(connection_attempts) : a.state = "InProgress"}

YoungAttempts(t) == {a \in InProgressAttempts : t - a.started < CONNECTION_ATTEMPT_DELAY}

\* C28: when process_output(now) returns Timer{d}, either some InProgress
\* attempt is younger than CONNECTION_ATTEMPT_DELAY and d is that delay minus
\* the age of the most recently started InProgress attempt, or none is that
\* young, some DNS query is InProgress, at least one is Completed, and d is
\* RESOLUTION_DELAY minus the time since the earliest completion.
C28_TimerValues ==
    \A d \in Ahead :
        \A e \in process_output_inner(now + d) :
            e.output.type = "Timer" =>
                IF YoungAttempts(now + d) # {}
                THEN e.output.duration
                     = CONNECTION_ATTEMPT_DELAY
                       - ((now + d) - Max({a.started : a \in InProgressAttempts}))
                ELSE /\ \E q \in Range(dns_queries) : q.state = "InProgress"
                     /\ \E q \in Range(dns_queries) : q.state = "Completed"
                     /\ e.output.duration
                        = RESOLUTION_DELAY
                          - ((now + d) - Min({q.completed : q \in Range(completed_queries)}))

\* The connection-attempt timer was returned while the resolution timer was
\* due as well: an attempt just started, a query pending and one answered
\* less than RESOLUTION_DELAY ago.
C28_Witness ==
    /\ output = Timer(CONNECTION_ATTEMPT_DELAY)
    /\ YoungAttempts(now) # {}
    /\ \E q \in Range(dns_queries) : q.state = "InProgress"
    /\ \E q \in Range(completed_queries) : now - q.completed < RESOLUTION_DELAY


-----------------------------------------------------------------------------
\* HTTPS, AAAA and A are answered positively with one IPv6 and one IPv4
\* address, every attempt so far is to the IPv6 address and InProgress, the
\* first of them with the strongest protocol, and no ConnectionResult was
\* delivered.
BlackHoleUnanswered ==
    /\ host = DomainHost
    /\ {q.response : q \in Range(completed_queries)} = {HttpsPositive, AaaaPositive, APositive}
    /\ Len(completed_queries) = Len(dns_queries)
    /\ connection_attempts # <<>>
    /\ \A a \in Range(connection_attempts) :
          /\ a.state = "InProgress"
          /\ a.id \notin answered
          /\ a.endpoint.address.ip.v6
    /\ connection_attempts[1].endpoint.protocol = "H3"

\* C29: in the IPv6 black-hole without any connection result, a caller that
\* calls process_output once per CONNECTION_ATTEMPT_DELAY gets an
\* AttemptConnection from every call until an IPv4 endpoint is attempted, and
\* that after finitely many calls: each attempt is to an endpoint not
\* attempted before, and the call after the first attempt is to IPv4.
C29_BlackHoleFallsBack ==
    BlackHoleUnanswered =>
        LET T == Max({a.started : a \in Range(connection_attempts)})
                 + CONNECTION_ATTEMPT_DELAY
            outputs == {e.output : e \in process_output_inner(T)}
        IN  now <= T =>
                /\ outputs # {}
                /\ \A o \in outputs :
                      /\ o.type = "AttemptConnection"
                      /\ ~attempted(o.endpoint)
                      /\ Len(connection_attempts) = 1 => ~o.endpoint.address.ip.v6

\* The IPv4 endpoint was attempted one CONNECTION_ATTEMPT_DELAY after the
\* IPv6 one, without any connection result.
C29_Witness ==
    /\ host = DomainHost
    /\ {q.response : q \in Range(completed_queries)} = {HttpsPositive, AaaaPositive, APositive}
    /\ Len(connection_attempts) = 2
    /\ \A a \in Range(connection_attempts) : a.state = "InProgress" /\ a.id \notin answered
    /\ connection_attempts[1].endpoint
       = Endpoint(SocketAddr(IpV6(V6_ADDR), PORT), "H3", None)
    /\ connection_attempts[2].endpoint
       = Endpoint(SocketAddr(IpV4(V4_ADDR), PORT), "H3", None)
    /\ connection_attempts[2].started
       = connection_attempts[1].started + CONNECTION_ATTEMPT_DELAY
    /\ output.type = "AttemptConnection" /\ output.id = connection_attempts[2].id


-----------------------------------------------------------------------------
\* The addresses the answers give: those of the positive AAAA/A answers, and
\* the hints of the service-info records (those that advertise a protocol)
\* whose target name has no positive answer of the hint's family.
AnsweredAddresses ==
    UNION {{SocketAddr(IF q.response.type = "Aaaa" THEN IpV6(a) ELSE IpV4(a), port) :
               a \in Range(q.response.val)} :
           q \in {c \in Range(completed_queries) :
                     c.response.type \in {"Aaaa", "A"} /\ c.response.ok}}
    \cup
    UNION {UNION {{SocketAddr(IpV6(h), port) :
                      h \in IF PositiveAnswerFor(info.target_name, "Aaaa")
                            THEN {} ELSE Range(info.ipv6_hints)}
                  \cup {SocketAddr(IpV4(h), port) :
                           h \in IF PositiveAnswerFor(info.target_name, "A")
                                 THEN {} ELSE Range(info.ipv4_hints)} :
                  info \in {i \in Range(q.response.val) : i.alpn_protocols # {}}} :
           q \in {c \in Range(completed_queries) :
                     c.response.type = "Https" /\ c.response.ok}}

\* The answered addresses that no attempt was made to.
UntriedAddresses ==
    {a \in AnsweredAddresses : ~\E t \in Range(connection_attempts) : t.endpoint.address = a}

\* C30: process_output returns Failed only in a state with no Succeeded
\* attempt, no InProgress DNS query, no InProgress attempt, no DNS query
\* (for the primary or a discovered target name) still to be issued, no Timer
\* due, and no answered address or hint left untried while the configuration
\* leaves a protocol to attempt it with.
C30_FailedNotPremature ==
    \A e \in process_output_inner(now) :
        e.output.type = "Failed" =>
            /\ ~\E a \in Range(connection_attempts) : a.state \in {"Succeeded", "InProgress"}
            /\ ~\E q \in Range(dns_queries) : q.state = "InProgress"
            /\ host.kind = "Domain" =>
                  /\ \A rt \in DnsRecordType :
                        \E q \in Range(dns_queries) :
                            q.target_name = host.value /\ record_type(q) = rt
                  /\ \A T \in DiscoveredNames, rt \in {"Aaaa", "A"} :
                        \E q \in Range(dns_queries) :
                            q.target_name = T /\ record_type(q) = rt
                  /\ connection_attempt_protocols # {} => UntriedAddresses = {}
            /\ delay(now) = None


-----------------------------------------------------------------------------
\* The outputs the steps of process_output offer at time t, each with the
\* rank of its step in the priority order.
Offers(t) ==
    {<<1, e.output>> : e \in cancel_remaining_attempts}
    \cup {<<2, e.output>> : e \in send_dns_request}
    \cup {<<3, e.output>> : e \in connection_attempt(t)}
    \cup {<<4, e.output>> : e \in send_dns_request_for_target_name}
    \cup {<<5, o>> : o \in Range(delay(t))}
    \cup {<<6, e.output>> : e \in {x \in exhausted_or_none : x.output.type = "Failed"}}
    \cup {<<7, NoOutput>>}

\* The kind of output each rank stands for.
RankKind(o) ==
    CASE o[1] = 1 -> o[2].type \in {"CancelConnection", "Succeeded"}
      [] o[1] = 2 -> o[2].type = "SendDnsQuery" /\ o[2].hostname = host.value
      [] o[1] = 3 -> o[2].type = "AttemptConnection"
      [] o[1] = 4 -> /\ o[2].type = "SendDnsQuery"
                     /\ o[2].hostname \in Range(discovered_target_names)
      [] o[1] = 5 -> o[2].type = "Timer"
      [] o[1] = 6 -> o[2].type = "Failed"
      [] o[1] = 7 -> o[2].type = "None"

\* C31: each process_output call returns the output of the first step that
\* offers one in the order CancelConnection/Succeeded > SendDnsQuery for the
\* primary target > AttemptConnection > SendDnsQuery for a discovered target
\* name > Timer > Failed > None; and no attempt is emitted before the three
\* primary queries have been issued.
C31_FixedPriority ==
    /\ \A d \in Ahead :
          LET offers == Offers(now + d)
              best == Min({o[1] : o \in offers})
          IN  /\ \A o \in offers : RankKind(o)
              /\ {e.output : e \in process_output_inner(now + d)}
                 = {o[2] : o \in {x \in offers : x[1] = best}}
    /\ host.kind = "Domain" =>
          \A i \in 1..Len(emitted) :
              emitted[i].type = "AttemptConnection" =>
                  \A rt \in DnsRecordType :
                      \E j \in 1..(i - 1) : emitted[j] = SendDnsQuery(emitted[j].id, host.value, rt)


-----------------------------------------------------------------------------
\* C32: the engine does not wait for all DNS answers: once the three primary
\* queries are issued and readiness holds without a timeout, an untried
\* candidate exists, no attempt has succeeded and no InProgress attempt is
\* younger than the Connection Attempt Delay, process_output at the same
\* time returns AttemptConnection, whatever queries are still InProgress.
C32_DoesNotWaitForAllAnswers ==
    ( /\ host.kind = "Domain"
      /\ send_dns_request = {}
      /\ ReadyWithoutTimeout
      /\ UntriedCandidates # {}
      /\ ~\E a \in Range(connection_attempts) : a.state = "Succeeded"
      /\ YoungAttempts(now) = {} )
    => \A e \in process_output_inner(now) : e.output.type = "AttemptConnection"

\* The attempt was returned at the time the last needed answer arrived
\* while a primary query is still InProgress.
C32_Witness ==
    /\ output.type = "AttemptConnection"
    /\ connection_attempts # <<>>
    /\ connection_attempts[Len(connection_attempts)].id = output.id
    /\ connection_attempts[Len(connection_attempts)].started = now
    /\ Len(connection_attempts) = 1
    /\ \E q \in Range(completed_queries) : q.completed = now
    /\ \E q \in Range(dns_queries) : q.state = "InProgress" /\ q.target_name = host.value
    /\ ~move_on_with_timeout(now)


-----------------------------------------------------------------------------
\* The hint addresses of a service-info record that are usable now: no
\* positive answer of the hint's family was received, neither for the host
\* nor for the record's target name.
UsableHints(info) ==
    {SocketAddr(IpV6(h), port) :
        h \in IF got_dns_aaaa_response \/ PositiveAnswerFor(info.target_name, "Aaaa")
              THEN {} ELSE Range(info.ipv6_hints)}
    \cup {SocketAddr(IpV4(h), port) :
             h \in IF got_dns_a_response \/ PositiveAnswerFor(info.target_name, "A")
                   THEN {} ELSE Range(info.ipv4_hints)}

\* C33: the endpoints built from a usable HTTPS hint address are one per
\* protocol of the effective protocol set, each with the effective ECH
\* config, as for the endpoints built from A/AAAA answers; a hint on a record
\* with an empty ALPN set still yields a candidate, and the record's own ALPN
\* adds no protocol outside the effective set.
C33_HintEndpointsEffective ==
    host.kind = "Domain" =>
        \A q \in Range(completed_queries) :
            (q.response.type = "Https" /\ q.response.ok) =>
                \A info \in Range(q.response.val) :
                    \A a \in UsableHints(info) :
                        {e \in Elements(ServiceInfo_flatten_into_endpoints(
                                         info, port, got_dns_a_response,
                                         got_dns_aaaa_response)) : e.address = a}
                        = {Endpoint(a, p, ech_config) : p \in connection_attempt_protocols}


-----------------------------------------------------------------------------
\* The times from now at which a Resolution Delay or a Connection Attempt
\* Delay expires.
Deadlines ==
    {d \in {q.completed + RESOLUTION_DELAY - now : q \in Range(completed_queries)}
           \cup {a.started + CONNECTION_ATTEMPT_DELAY - now : a \in Range(connection_attempts)} :
        d >= 0}

\* C34: no missed wake-up: when process_output(now) returns None, it returns
\* None at every later time as long as no input arrives, so that whenever
\* the passage of time would enable an attempt a Timer is returned instead;
\* and a Timer{d} returned at now is not followed at now + d by a Timer for
\* the same deadline.
C34_NoMissedWakeUp ==
    /\ (\A e \in process_output_inner(now) : e.output = NoOutput)
       => \A d \in Ahead \cup Deadlines :
              \A e \in process_output_inner(now + d) : e.output = NoOutput
    /\ \A e \in process_output_inner(now) :
          e.output.type = "Timer" =>
              \A f \in process_output_inner(now + e.output.duration) :
                  f.output.type = "Timer" => f.output.duration > 0

\* The caller slept through the Resolution Delay timer it was given and the
\* engine, asked again at the deadline, attempts a connection.
C34_Witness ==
    /\ output.type = "Timer"
    /\ YoungAttempts(now) = {}
    /\ \E q \in Range(completed_queries) : now - q.completed = RESOLUTION_DELAY
    /\ \E e \in process_output_inner(now) : e.output.type = "AttemptConnection"


-----------------------------------------------------------------------------
\* C35: process_input returns no output, appends to neither ledger, leaves
\* the Id counter alone and changes at most one ledger entry, the one with
\* the Id it carries, and of that entry neither the Id nor what was asked for
\* (a DnsResult touches only the DNS ledger, a ConnectionResult only the
\* attempt ledger); a ConnectionResult{Ok} leaves every other InProgress
\* attempt InProgress.
C35_InputFrame ==
    [][(DnsResultInput \/ ConnectionResultInput) =>
          LET carried == answered' \ answered
              queries == {i \in 1..Len(dns_queries) : dns_queries'[i] # dns_queries[i]}
              attempts == {i \in 1..Len(connection_attempts) :
                              connection_attempts'[i] # connection_attempts[i]}
          IN  /\ output' = output
              /\ next' = next
              /\ Len(dns_queries') = Len(dns_queries)
              /\ Len(connection_attempts') = Len(connection_attempts)
              /\ Cardinality(queries) + Cardinality(attempts) <= 1
              /\ DnsResultInput => attempts = {}
              /\ ConnectionResultInput => queries = {}
              /\ \A i \in queries :
                    /\ dns_queries[i].id \in carried
                    /\ dns_queries'[i].id = dns_queries[i].id
                    /\ dns_queries'[i].target_name = dns_queries[i].target_name
              /\ \A i \in attempts :
                    /\ connection_attempts[i].id \in carried
                    /\ connection_attempts'[i]
                       = [connection_attempts[i] EXCEPT !.state = connection_attempts'[i].state]
              /\ \A i \in 1..Len(connection_attempts) :
                    (connection_attempts[i].state = "InProgress"
                     /\ connection_attempts[i].id \notin carried)
                    => connection_attempts'[i].state = "InProgress"]_vars

\* A ConnectionResult{Ok} was delivered while another attempt was InProgress,
\* and that attempt still is: no CancelConnection was returned yet.
C35_Witness ==
    /\ watch.on /\ watch.got = <<>> /\ watch.expect # <<>>
    /\ \E a \in Range(connection_attempts) : a.state = "Succeeded"
    /\ \E a \in Range(connection_attempts) : a.state = "InProgress"


-----------------------------------------------------------------------------
\* C36: the ledgers are append-only with one-way status changes: no entry is
\* removed or reordered, a Completed DNS query is never changed again, and a
\* connection attempt that is Succeeded or Failed (by a ConnectionResult or
\* by an emitted CancelConnection) keeps that state, each issued Id
\* receiving at most one result.
C36_LedgersOneWay ==
    [][/\ Len(dns_queries') >= Len(dns_queries)
       /\ Len(connection_attempts') >= Len(connection_attempts)
       /\ \A i \in 1..Len(dns_queries) :
             /\ dns_queries'[i].id = dns_queries[i].id
             /\ dns_queries'[i].target_name = dns_queries[i].target_name
             /\ dns_queries[i].state = "Completed" => dns_queries'[i] = dns_queries[i]
       /\ \A i \in 1..Len(connection_attempts) :
             /\ connection_attempts'[i].id = connection_attempts[i].id
             /\ connection_attempts'[i].endpoint = connection_attempts[i].endpoint
             /\ connection_attempts'[i].started = connection_attempts[i].started
             /\ connection_attempts[i].state # "InProgress"
                => connection_attempts'[i].state = connection_attempts[i].state]_vars


-----------------------------------------------------------------------------
\* multiple_ips_per_record: an AAAA answer with three addresses, and one that
\* lists them in another order.
AaaaThree == DnsOk("Aaaa", <<V6_ADDR, V6_ADDR_2, V6_ADDR_3>>)
AaaaShuffled == DnsOk("Aaaa", <<V6_ADDR_3, V6_ADDR, V6_ADDR_2>>)

OrderAnswers == {HttpsNegative, HttpsPositive, AaaaThree, AaaaShuffled, ANegative}

\* A domain target whose AAAA answer lists several addresses, the caller
\* waiting a Connection Attempt Delay between its calls.
InitOrder ==
    InitWith({DefaultConfig}, {DomainHost}, Caller({}, OrderAnswers, LongTicks, MaxNow))

OrderSpec == InitOrder /\ [][Next]_vars

\* The places at which the DNS ledger lists an address that is a candidate:
\* the position of the query in the ledger, then the position in the answer's
\* address vector (for a hint: of its record, then in the record's hints).
LedgerPlaces(address) ==
    UNION {{i * 100 + j : j \in {k \in 1..Len(dns_queries[i].response.val) :
                                    /\ dns_queries[i].response.val[k] = address.ip.addr
                                    /\ address.ip.v6 = (dns_queries[i].response.type = "Aaaa")}} :
           i \in {n \in 1..Len(dns_queries) :
                     /\ dns_queries[n].state = "Completed"
                     /\ dns_queries[n].response.type \in {"Aaaa", "A"}
                     /\ dns_queries[n].response.ok}}
    \cup
    UNION {UNION {{i * 100 + r * 10 + j :
                      j \in {k \in 1..Len(IF address.ip.v6
                                          THEN dns_queries[i].response.val[r].ipv6_hints
                                          ELSE dns_queries[i].response.val[r].ipv4_hints) :
                                (IF address.ip.v6
                                 THEN dns_queries[i].response.val[r].ipv6_hints
                                 ELSE dns_queries[i].response.val[r].ipv4_hints)[k]
                                = address.ip.addr}} :
                  r \in {x \in 1..Len(dns_queries[i].response.val) :
                            address \in HintCandidates(dns_queries[i].response.val[x])}} :
           i \in {n \in 1..Len(dns_queries) :
                     /\ dns_queries[n].state = "Completed"
                     /\ dns_queries[n].response.type = "Https"
                     /\ dns_queries[n].response.ok}}

\* C37: among the untried candidates with the same protocol and the same
\* address family the next AttemptConnection goes to the address listed
\* earliest in the DNS ledger; an AAAA answer [a1, a2, a3] gives attempts to
\* a1, a2, a3 in that order, with consecutive Ids.
C37_ListedOrder ==
    host.kind = "Domain" =>
        /\ \A d \in Ahead :
              \A e \in process_output_inner(now + d) :
                  e.output.type = "AttemptConnection" =>
                      \A c \in UntriedCandidates :
                          (/\ c.protocol = e.output.endpoint.protocol
                           /\ c.address.ip.v6 = e.output.endpoint.address.ip.v6)
                          => Min(LedgerPlaces(c.address))
                             >= Min(LedgerPlaces(e.output.endpoint.address))
        /\ \A answer \in {AaaaThree, AaaaShuffled} :
              {q.response : q \in Range(completed_queries)}
              = {HttpsNegative, ANegative, answer}
              => /\ Len(connection_attempts) <= 3
                 /\ \A k \in 1..Len(connection_attempts) :
                       /\ connection_attempts[k].endpoint.address
                          = SocketAddr(IpV6(answer.val[k]), port)
                       /\ connection_attempts[k].id = 2 + k

\* multiple_ips_per_record carried on to the third address: the attempts
\* went to a1, a2, a3, a Connection Attempt Delay apart.
C37_Witness ==
    /\ {q.response : q \in Range(completed_queries)} = {HttpsNegative, ANegative, AaaaThree}
    /\ Len(connection_attempts) = 3
    /\ output.type = "AttemptConnection"
    /\ output.id = 5
    /\ output.endpoint.address = SocketAddr(IpV6(V6_ADDR_3), port)
    /\ connection_attempts[2].started = connection_attempts[1].started + CONNECTION_ATTEMPT_DELAY
    /\ connection_attempts[3].started = connection_attempts[2].started + CONNECTION_ATTEMPT_DELAY


-----------------------------------------------------------------------------
\* The single-stack configurations.
Ipv6OnlyConfig == [DefaultConfig EXCEPT !.ip = "Ipv6Only"]
Ipv4OnlyConfig == [DefaultConfig EXCEPT !.ip = "Ipv4Only"]

\* Every IP preference, for a domain target with the answers of the tests,
\* the caller waiting for a Resolution Delay timer at most.
InitPreference ==
    InitWith({DefaultConfig, PreferV4Config, Ipv6OnlyConfig, Ipv4OnlyConfig}, {DomainHost},
             Caller({}, PlainAnswers, {}, ShortNow))

PreferenceSpec == InitPreference /\ [][Next]_vars

\* The configuration with the other IP preference of the same preferred
\* family.
Twin(config) ==
    [config EXCEPT !.ip = CASE @ = "Ipv6Only" -> "DualStackPreferV6"
                            [] @ = "DualStackPreferV6" -> "Ipv6Only"
                            [] @ = "Ipv4Only" -> "DualStackPreferV4"
                            [] @ = "DualStackPreferV4" -> "Ipv4Only"]

\* process_output returns, in the engine with the twin configuration and the
\* same ledgers and Id counter, the same output and makes the same changes,
\* now and at every later time of Ahead.
SameAsTwin ==
    ENABLED (/\ network_config' = Twin(network_config)
             /\ UNCHANGED <<host, port, next, dns_queries, connection_attempts, now, output,
                            caller, wake, history>>
             /\ \A d \in Ahead :
                   (process_output_inner(now + d))' = process_output_inner(now + d))

\* C38: an engine configured with Ipv6Only returns the same outputs as one
\* configured with DualStackPreferV6, and Ipv4Only the same as
\* DualStackPreferV4, for every sequence of inputs and times; under Ipv6Only
\* the A query is issued and the IPv4 addresses are candidates, attempted
\* after the IPv6 ones of the same protocol.
C38_OnlyIsPreference ==
    /\ SameAsTwin
    /\ network_config.ip = "Ipv6Only" =>
          /\ (Len(dns_queries) = 2 /\ connection_attempts = <<>>)
             => {e.output : e \in process_output_inner(now)}
                = {SendDnsQuery(next, host.value, "A")}
          /\ \A q \in Range(completed_queries) :
                (q.response.type = "A" /\ q.response.ok) =>
                    \A a \in Range(q.response.val), p \in connection_attempt_protocols :
                        Endpoint(SocketAddr(IpV4(a), port), p, ech_config)
                        \in Elements(flattened_endpoints)
          /\ \A e \in process_output_inner(now) :
                (e.output.type = "AttemptConnection" /\ ~e.output.endpoint.address.ip.v6)
                => \A c \in UntriedCandidates :
                       c.protocol = e.output.endpoint.protocol => ~c.address.ip.v6

\* Under Ipv6Only the IPv4 address was attempted, after the IPv6 one.
C38_Witness ==
    /\ network_config.ip = "Ipv6Only"
    /\ Len(connection_attempts) = 2
    /\ connection_attempts[1].endpoint.address = SocketAddr(IpV6(V6_ADDR), port)
    /\ connection_attempts[2].endpoint.address = SocketAddr(IpV4(V4_ADDR), port)
    /\ output.type = "AttemptConnection" /\ output.id = connection_attempts[2].id


-----------------------------------------------------------------------------
\* The times from now around which a Timer could come out with a duration of
\* zero or less: each deadline of the state and the moment before it.
AroundDeadlines == Deadlines \cup {d - 1 : d \in Deadlines \ {0}}

\* C39: every Timer returned, in every reachable state and at every time
\* from now on, has a duration of at least one and at most
\* CONNECTION_ATTEMPT_DELAY, and at most RESOLUTION_DELAY when no InProgress
\* attempt is younger than the Connection Attempt Delay (a resolution timer).
C39_TimerIsPositive ==
    \A d \in Ahead \cup AroundDeadlines :
        \A e \in process_output_inner(now + d) :
            e.output.type = "Timer" =>
                /\ e.output.duration > 0
                /\ e.output.duration <= CONNECTION_ATTEMPT_DELAY
                /\ YoungAttempts(now + d) = {} => e.output.duration <= RESOLUTION_DELAY

\* The caller woke at the deadline of the Timer it was given, and the engine
\* returns no further Timer there.
C39_Witness ==
    /\ output.type = "Timer"
    /\ now > 0
    /\ wake = None
    /\ \E d \in Deadlines : d = 0
    /\ \A e \in process_output_inner(now) : e.output.type # "Timer"
    /\ \E e \in process_output_inner(now - 1) : e.output = Timer(1)


-----------------------------------------------------------------------------
\* C40: completing a DNS query preserves its identity: every ledger entry,
\* InProgress or Completed with a result of any variant, reports the target
\* name and the record type of the SendDnsQuery that issued its Id, and no
\* (target name, record type) is issued twice.
C40_CompletionKeepsIdentity ==
    /\ \A q \in Range(dns_queries) :
          \E i \in 1..Len(emitted) :
              emitted[i] = SendDnsQuery(q.id, q.target_name, record_type(q))
    /\ \A i, j \in 1..Len(emitted) :
          (/\ emitted[i].type = "SendDnsQuery" /\ emitted[j].type = "SendDnsQuery"
           /\ emitted[i].hostname = emitted[j].hostname
           /\ emitted[i].record_type = emitted[j].record_type)
          => i = j

=============================================================================
